---- MODULE Spec2Model ----
(***************************************************************************)
(* A model of the Job-Hunt AI service's orchestration code:                *)
(*   - the batch fit-score executor (AI/fast_fit_score.py),                *)
(*   - the interview-preparation pipeline and its deadline fallback        *)
(*     (AI/interview_prep_graph.py, AI/rag_service.py),                    *)
(*   - the recruiter decision workflow and its endpoint                    *)
(*     (AI/recruiter_decision_graph.py, AI/rag_service.py).                *)
(* The text-generation oracle is a black box: every oracle call draws its  *)
(* outcome from a small set of response shapes.                            *)
(***************************************************************************)
EXTENDS Integers, Sequences, FiniteSets, TLC

VARIABLES
    \* ---- batch executor (fast_fit_score.py) ----
    resume_data,    \* request.resume_data
    jobs,           \* request.jobs, as the sequence of the jobs' _id values
    epPc,           \* position of batch_calculate_fit_scores
    batches,        \* the slice of jobs each task was created with
    taskPc,         \* position of each process_batch_with_semaphore task
    semaphore,      \* asyncio.Semaphore(3): its free permits
    running,        \* the task that occupies the event loop (0: none)
    oracle,         \* per task, the shape of the oracle's answer ("" before it)
    batch_results,  \* per task, the list process_batch returned
    taskRaised,     \* per task, whether it ended with an exception
    calls,          \* oracle calls issued by the run
    reply,          \* what the endpoint returned
    \* ---- interview preparation (rag_service.py, interview_prep_graph.py) ----
    payload,        \* the request: resume_data, job_data
    prepPc,         \* position of prepare_interview
    thread,         \* position of graph.invoke in its worker thread
    state,          \* the graph's InterviewPrepState (the nine output keys)
    node3,          \* round_by_round_prep_node's locals dsa_prep, system_design_prep
    prepOracle,     \* per oracle call site, the outcome of its call ("" before it)
    timedOut,       \* whether the 240 s passed before graph.invoke ended
    fallbackCalls,  \* invocations of generate_quick_interview_prep
    fallbackState,  \* what generate_quick_interview_prep returned
    deadlineState,  \* the graph's state when the TimeoutError handler was entered
    prepReply,      \* what prepare_interview returned
    \* ---- recruiter decision (rag_service.py, recruiter_decision_graph.py) ----
    request,        \* the body of POST /recruiter/decision
    decPc,          \* position of recruiter_decision_endpoint
    decNode,        \* position of graph.invoke inside get_recruiter_decision
    decState,       \* the graph's RecruiterDecisionState
    decOracle,      \* per stage, the outcome of its oracle call ("" when none)
    decCalls,       \* the stages that called the oracle, in call order
    decTrace,       \* the stages that were entered, in order
    decSearches,    \* the web searches of the college-tier stage: their outcomes
    decResult,      \* what get_recruiter_decision returned
    decReply,       \* what recruiter_decision_endpoint answered
    \* ---- PDF question answering and its conversation store (rag_service.py) ----
    rag_checkpoints,      \* per thread_id, the collection's documents: each one's messages
    queryPc,              \* position of each query_pdf request
    queryThread,          \* each request's payload thread_id
    queryServer,          \* the server process each request is sent to
    conversation_history, \* query_pdf's local: what _get_rag_conversation_history returned
    existing,             \* _save_rag_conversation's local: what find_one returned
    loopOwner             \* per server process, the request that occupies its event loop (0: none)

batchVars == <<resume_data, jobs, epPc, batches, taskPc, semaphore, running, oracle, batch_results,
               taskRaised, calls, reply>>

prepVars == <<payload, prepPc, thread, state, node3, prepOracle, timedOut,
              fallbackCalls, fallbackState, deadlineState,
              prepReply>>

decVars == <<request, decPc, decNode, decState, decOracle, decCalls, decTrace,
             decSearches,
             decResult, decReply>>

histVars == <<rag_checkpoints, queryPc, queryThread, queryServer,
              conversation_history, existing, loopOwner>>

vars == <<batchVars, prepVars, decVars, histVars>>

\* ------------------------------------------------------------------ bounds

\* The longest job list of a request.
MaxJobs == 61

\* ----------------------------------------------------- program constants

batch_size == 20
SemaphorePermits == 3

\* ------------------------------------------------------------- utilities

Min(a, b) == IF a < b THEN a ELSE b

RECURSIVE Concat(_)
\* The concatenation of a sequence of sequences (list.extend in a loop).
Concat(ss) == IF ss = <<>> THEN <<>> ELSE Head(ss) \o Concat(Tail(ss))

\* ------------------------------------------------------------ identifiers

\* A JSON value used as an identifier.  type "str", val k >= 0 is the decimal
\* string of k, val -1 the empty string and val -2 the string "[]"; type
\* "int" is the number k; type "list" is the empty JSON array (unhashable in
\* Python).
StrId(k) == [type |-> "str", val |-> k]
IntId(k) == [type |-> "int", val |-> k]
ListId == [type |-> "list", val |-> 0]
EmptyStr == StrId(-1)

\* str(x)
Str(x) ==
    IF x.type = "str" THEN x
    ELSE IF x.type = "int" THEN StrId(x.val)
    ELSE StrId(-2)

\* A job of the request: its _id (type, val) and the two attributes that
\* process_batch dereferences.  experience: "absent", "dict" (a mapping) or
\* "str" (a string); description: "absent", "str" or "null".
Job(id, experience, description) ==
    [type |-> id.type, val |-> id.val, experience |-> experience,
     description |-> description]

\* The job list of a request with n jobs: job i has _id "i"; job k (if any)
\* carries the attributes exp and desc, every other job the expected ones.
JobList(n, k, exp, desc) ==
    [i \in 1..n |-> IF i = k THEN Job(StrId(i), exp, desc)
                    ELSE Job(StrId(i), "dict", "str")]

\* request.resume_data, by the attributes create_resume_summary
\* dereferences.  skills, certifications, and the technologies of a project:
\* a list of strings ("strs") or a list of numbers ("ints"); title: the
\* title of a position under experience, a string ("str") or null ("null").
ResumeData(skills, title, technologies, certifications) ==
    [skills |-> skills, title |-> title, technologies |-> technologies,
     certifications |-> certifications]

\* str(job.get("_id", ""))
JobId(job) == Str([type |-> job.type, val |-> job.val])

\* Building the prompt (before the try of process_batch) raises.  In
\* create_resume_summary: ', '.join(skills[:20]) over a list of numbers;
\* e.get("title", "").lower() on a null title; ", ".join(tech[:5]) and
\* ', '.join(certs[:5]) over lists of numbers.  In the job summaries:
\* job.get('experience', {}).get('display', '') on a string;
\* job.get('description', '')[:300] on null.
PromptRaises(resume, b) ==
    \/ resume.skills = "ints"
    \/ resume.title = "null"
    \/ resume.technologies = "ints"
    \/ resume.certifications = "ints"
    \/ \E i \in 1..Len(b) :
          b[i].experience = "str" \/ b[i].description = "null"

\* ----------------------------------------------------------- score entries

ZeroBreakdown == [skillsMatch |-> 0, experienceMatch |-> 0,
                  educationMatch |-> 0, overallAlignment |-> 0]

\* An element of a result collection.  t = "dict" is a JSON object; has_id
\* says whether it holds the key "job_id".  Any other t is a JSON value that
\* is no object.
Entry(id, score, bd, st, gp, rec) ==
    [t |-> "dict", has_id |-> TRUE, job_id |-> id, fitScore |-> score,
     breakdown |-> bd, strengths |-> st, gaps |-> gp, recommendation |-> rec]

NonDictEntry ==
    [t |-> "str", has_id |-> FALSE, job_id |-> EmptyStr, fitScore |-> 0,
     breakdown |-> ZeroBreakdown, strengths |-> <<>>, gaps |-> <<>>,
     recommendation |-> ""]

\* The default score appended for a job the oracle left out.
MissingPlaceholder(job) ==
    Entry(JobId(job), 0, ZeroBreakdown, <<>>, <<"Unable to calculate match">>,
          "Not recommended")

\* The default score of the exception handler.
ErrorPlaceholder(job) ==
    Entry(JobId(job), 0, ZeroBreakdown, <<>>, <<"Error calculating match">>,
          "Not recommended")

\* score.get("job_id", "")
EntryJobId(e) == IF e.has_id THEN e.job_id ELSE EmptyStr

\* ------------------------------------------------------ the oracle's answers

\* recommendation, as the prompt asks the oracle to derive it from fitScore.
Band(score) ==
    IF score >= 80 THEN "Highly recommended"
    ELSE IF score >= 65 THEN "Recommended"
    ELSE IF score >= 50 THEN "Consider"
    ELSE "Not recommended"

\* The fit score the oracle gives the job with id k when it scores it.
ScoreOf(k) == 35 + ((k * 7) % 60)

GoodEntry(job) ==
    Entry(JobId(job), ScoreOf(job.val),
          [skillsMatch |-> ScoreOf(job.val), experienceMatch |-> 35,
           educationMatch |-> 70, overallAlignment |-> 60],
          <<"Strong technical skills">>, <<"No professional work experience">>,
          Band(ScoreOf(job.val)))

\* An entry whose numbers and label are outside the documented ranges.
WildEntry(job) ==
    Entry(JobId(job), 150,
          [skillsMatch |-> 120, experienceMatch |-> 35,
           educationMatch |-> 70, overallAlignment |-> 60],
          <<>>, <<>>, "Maybe")

AllEntries(b) == [i \in 1..Len(b) |-> GoodEntry(b[i])]

\* JSON values one level below the top: a list of entries, or something else.
ListVal(items) == [t |-> "list", items |-> items]
OtherVal(t) == [t |-> t, items |-> <<>>]
Pair(k, v) == [key |-> k, val |-> v]

\* What one oracle call produced.  kind "raise": the client call raised
\* (timeout, transport failure); "badjson": text json.loads rejects; "json":
\* text that parses to the value (top, items, pairs, hasKeys).  hasKeys, for
\* a JSON string, says whether it contains "scores", "results" or "jobs".
Raised == [kind |-> "raise", top |-> "null", items |-> <<>>, pairs |-> <<>>,
           hasKeys |-> FALSE]
BadJson == [kind |-> "badjson", top |-> "null", items |-> <<>>, pairs |-> <<>>,
            hasKeys |-> FALSE]
JsonList(items) == [kind |-> "json", top |-> "list", items |-> items,
                    pairs |-> <<>>, hasKeys |-> FALSE]
JsonDict(pairs) == [kind |-> "json", top |-> "dict", items |-> <<>>,
                    pairs |-> pairs, hasKeys |-> FALSE]
JsonScalar(t, hk) == [kind |-> "json", top |-> t, items |-> <<>>,
                      pairs |-> <<>>, hasKeys |-> hk]

\* The shapes of answer the oracle is taken to give.
Shapes == {"timeout", "unparsable", "scores_all", "list_all", "missing_last",
           "extra_foreign", "dup_first", "null_scores", "junk_entry",
           "out_of_range", "empty_object"}

\* The oracle's answer of shape sh to the prompt of the (non-empty) batch b.
OracleAnswer(sh, b) ==
    CASE sh = "timeout" -> Raised
      [] sh = "unparsable" -> BadJson
      [] sh = "scores_all" ->
            JsonDict(<<Pair("scores", ListVal(AllEntries(b)))>>)
      [] sh = "list_all" -> JsonList(AllEntries(b))
      [] sh = "missing_last" ->
            JsonDict(<<Pair("results",
                            ListVal(SubSeq(AllEntries(b), 1, Len(b) - 1)))>>)
      [] sh = "extra_foreign" ->
            \* plus an entry for the id batch_size further down the list
            JsonDict(<<Pair("jobs",
                ListVal(Append(AllEntries(b),
                               GoodEntry(StrId(b[1].val + batch_size)))))>>)
      [] sh = "dup_first" ->
            JsonDict(<<Pair("note", OtherVal("str")),
                       Pair("data", ListVal(<<GoodEntry(b[1])>>
                                            \o AllEntries(b)))>>)
      [] sh = "null_scores" ->
            JsonDict(<<Pair("scores", OtherVal("null")),
                       Pair("results", ListVal(AllEntries(b)))>>)
      [] sh = "junk_entry" ->
            JsonDict(<<Pair("scores",
                            ListVal(Append(AllEntries(b), NonDictEntry)))>>)
      [] sh = "out_of_range" ->
            JsonDict(<<Pair("scores",
                            ListVal([i \in 1..Len(b) |-> WildEntry(b[i])]))>>)
      [] sh = "empty_object" -> JsonDict(<<>>)

\* ------------------------------------------------------------ process_batch

HasKey(result, k) == \E i \in 1..Len(result.pairs) : result.pairs[i].key = k

\* result[k]
Lookup(result, k) ==
    result.pairs[CHOOSE i \in 1..Len(result.pairs) : result.pairs[i].key = k].val

\* for key, value in result.items(): if isinstance(value, list): ... break
FirstListValue(result) ==
    LET idx == { i \in 1..Len(result.pairs) : result.pairs[i].val.t = "list" }
    IN  IF idx = {} THEN ListVal(<<>>)
        ELSE result.pairs[CHOOSE i \in idx : \A j \in idx : i <= j].val

\* "Handle different response formats": the value bound to scores, or an
\* exception (a non-container top-level value cannot be searched for a key,
\* a string that holds a key name cannot be indexed by it).
LocateScores(result) ==
    IF result.top = "list" THEN [raised |-> FALSE, scores |-> ListVal(result.items)]
    ELSE IF result.top = "dict" THEN
        [raised |-> FALSE,
         scores |-> IF HasKey(result, "scores") THEN Lookup(result, "scores")
                    ELSE IF HasKey(result, "results") THEN Lookup(result, "results")
                    ELSE IF HasKey(result, "jobs") THEN Lookup(result, "jobs")
                    ELSE FirstListValue(result)]
    ELSE IF result.top = "str" /\ ~result.hasKeys THEN
        [raised |-> FALSE, scores |-> ListVal(<<>>)]
    ELSE [raised |-> TRUE, scores |-> ListVal(<<>>)]

\* Whether building scored_ids and appending the defaults raises: scores is
\* no list, an element has no .get, or a job_id is unhashable.
RepairRaises(scores) ==
    \/ scores.t # "list"
    \/ \E i \in 1..Len(scores.items) :
          \/ scores.items[i].t # "dict"
          \/ EntryJobId(scores.items[i]).type = "list"

RECURSIVE MissingDefaults(_, _)
\* for job in jobs: if job_id not in scored_ids: scores.append(default)
MissingDefaults(b, scored_ids) ==
    IF b = <<>> THEN <<>>
    ELSE (IF JobId(Head(b)) \in scored_ids THEN <<>>
          ELSE <<MissingPlaceholder(Head(b))>>)
         \o MissingDefaults(Tail(b), scored_ids)

\* The ids already scored kept across the calls of a run, not rebuilt from
\* the answer at hand.
Repair_Shared(b, items) ==
    LET scored_ids == { EntryJobId(items[i]) : i \in 1..Len(items) }
                      \cup UNION { { EntryJobId(batch_results[g][i]) :
                                        i \in 1..Len(batch_results[g]) } :
                                    g \in DOMAIN batch_results }
    IN  items \o MissingDefaults(b, scored_ids)

\* "Ensure all jobs have scores" on a list of well-formed entries.
Repair(b, items) ==
    LET scored_ids == { EntryJobId(items[i]) : i \in 1..Len(items) }
    IN  items \o MissingDefaults(b, scored_ids)

\* The exception handler returning nothing for the group.
ErrorDefaults_Empty(b) == <<>>

\* except Exception: default scores for all jobs
ErrorDefaults(b) == [i \in 1..Len(b) |-> ErrorPlaceholder(b[i])]

\* Whether the try block of process_batch ends in its exception handler.
TryRaises(ans) ==
    \/ ans.kind # "json"
    \/ LocateScores(ans).raised
    \/ RepairRaises(LocateScores(ans).scores)

ProcessBatch_NoCatch(resume, b, ans) ==
    [raised |-> PromptRaises(resume, b) \/ TryRaises(ans),
     scores |-> IF PromptRaises(resume, b) \/ TryRaises(ans) THEN <<>>
                ELSE Repair(b, LocateScores(ans).scores.items)]

\* process_batch(resume_data, jobs) when the oracle answers ans: the list it
\* returns; raised says whether an exception leaves the function, which the
\* prompt building before the try can cause (no call is issued then).
ProcessBatch(resume, b, ans) ==
    [raised |-> PromptRaises(resume, b),
     scores |-> IF PromptRaises(resume, b) THEN <<>>
                ELSE IF TryRaises(ans) THEN ErrorDefaults(b)
                ELSE Repair(b, LocateScores(ans).scores.items)]

\* ------------------------------------- interview preparation: the values

\* The declared output keys of the pipeline.
Keys == {"company_info", "interview_links", "role_level", "interview_rounds",
         "dsa_prep", "system_design_prep", "behavioral_prep",
         "common_questions", "prepared_answers"}

\* A value of the state: its JSON type ("null" is None; "absent": the mapping
\* has no such key) and where it came from.
V(type, src) == [type |-> type, src |-> src]
NoneV == V("null", "none")
AbsentV == V("absent", "none")

\* initial_state: every output key None
InitialState == [k \in Keys |-> NoneV]

\* A request.  resume, job: what payload.get gives for resume_data and
\* job_data: "dict" (a non-empty mapping), "empty" ({}, or the key missing;
\* for resume_data also null), "null", "list" (a non-empty JSON array; the
\* graph never reads resume_data, the quick fallback does).
\* title, exp: the job's title and experience.display; title_null,
\* company_null: the job holds null under "title", under "company".
Payload(resume, job, title, exp, title_null, company_null) ==
    [resume |-> resume, job |-> job, title |-> title, exp |-> exp,
     title_null |-> title_null, company_null |-> company_null]

Payloads ==
    { Payload("dict", "dict", t, "", FALSE, FALSE) :
        t \in {"SDE 2", "SDE2", "Senior Software Engineer", "Junior Developer",
               "Software Engineer"} }
    \cup { Payload("dict", "dict", "Software Engineer", e, FALSE, FALSE) :
             e \in {"0-1 years", "3-5 years"} }
    \cup { Payload(r, j, "Software Engineer", "", FALSE, FALSE) :
             r \in {"dict", "empty"}, j \in {"dict", "empty", "null", "list"} }
    \cup { Payload("dict", "dict", "", "", TRUE, FALSE),
           Payload("dict", "dict", "SDE 2", "", FALSE, TRUE),
           Payload("list", "dict", "SDE 2", "", FALSE, FALSE) }

\* job_data.get('company', 'N/A') in the prints before the guard raises:
\* job_data is None or a list.
PayloadRaises(p) == p.job \in {"null", "list"}

\* if not resume_data or not job_data
PayloadMissing(p) == p.resume = "empty" \/ p.job \in {"empty", "null"}

\* needle in text.lower(), for the titles and experience strings of Payloads.
Contains(text, needle) ==
    \/ text = "SDE 2" /\ needle = "sde 2"
    \/ text = "SDE2" /\ needle = "sde2"
    \/ text = "Senior Software Engineer" /\ needle = "senior"
    \/ text = "Junior Developer" /\ needle = "junior"
    \/ text = "0-1 years" /\ needle \in {"0", "1"}
    \/ text = "3-5 years" /\ needle \in {"3", "5"}

ContainsAny(text, needles) == \E x \in needles : Contains(text, x)

\* company_research_node: "Determine role level from title"
RoleLevel(title, exp) ==
    IF ContainsAny(title, {"sde 2", "sde2", "sde-2", "ii", "level 2"}) THEN "SDE-2"
    ELSE IF ContainsAny(title, {"sde 1", "sde1", "sde-1", "junior", "level 1"})
        THEN "SDE-1"
    ELSE IF ContainsAny(title, {"senior", "sde 3", "lead", "principal"}) THEN "Senior"
    ELSE IF ContainsAny(exp, {"0", "fresher"}) THEN "Fresher"
    ELSE IF ContainsAny(exp, {"1", "2"}) THEN "SDE-1"
    ELSE IF ContainsAny(exp, {"3", "4", "5"}) THEN "SDE-2"
    ELSE "SDE-1"

\* generate_quick_interview_prep: "Determine role level"
QuickRoleLevel(title) ==
    IF ContainsAny(title, {"sde 2", "sde-2", "ii"}) THEN "SDE-2"
    ELSE IF ContainsAny(title, {"senior", "lead"}) THEN "Senior"
    ELSE "SDE-1"

\* The call sites of the oracle in the pipeline and the fallback.
CallSites == {"summary", "rounds", "dsa", "sd", "behavioral", "fallback"}

\* Outcomes of a pipeline oracle call: the client call raised ("raise": any
\* exception but TimeoutError; "timeout_error": the builtin TimeoutError,
\* which asyncio.TimeoutError is); text that is no JSON; the JSON value null;
\* a JSON object ("dict_nulls": one that holds null under the keys the node
\* reads a list from: rounds, top_15_questions, common_questions).
Outcomes == {"raise", "timeout_error", "badjson", "null", "dict", "dict_nulls"}

\* What the web search returned to company_research_node: records with
\* string title and content, or a record with a url and a null title.
SearchResults == {"records", "null_title"}

NoPrepReply == [status |-> 0, body |-> [k \in Keys |-> AbsentV]]

\* No query_pdf request is being served and the collection is empty.
HistoryIdle ==
    /\ rag_checkpoints = <<>>
    /\ queryPc = <<>>
    /\ queryThread = <<>>
    /\ queryServer = <<>>
    /\ conversation_history = <<>>
    /\ existing = <<>>
    /\ loopOwner = <<>>

\* The interview-preparation endpoint has not been called.
PrepIdle ==
    /\ payload = Payload("dict", "dict", "", "", FALSE, FALSE)
    /\ prepPc = "idle"
    /\ thread = "idle"
    /\ state = InitialState
    /\ node3 = [dsa_prep |-> NoneV, system_design_prep |-> NoneV]
    /\ prepOracle = [c \in CallSites |-> ""]
    /\ timedOut = FALSE
    /\ fallbackCalls = 0
    /\ fallbackState = [k \in Keys |-> AbsentV]
    /\ deadlineState = InitialState
    /\ prepReply = NoPrepReply

\* --------------------------------------------- recruiter decision: the values

\* A JSON number, JSON null (None), or a key the mapping does not hold.
Num(v) == [t |-> "num", v |-> v]
NullNum == [t |-> "null", v |-> 0]
AbsentNum == [t |-> "absent", v |-> 0]

\* An ATS analysis: t is "absent" (the request has no such key), "none"
\* (None), "dict" or "list" (a non-empty JSON array); a dict is empty or not
\* and holds its "score" entry; src tells who made the value
\* ("caller_badlist", "oracle_badlist": with "strengths" or "weaknesses"
\* null or a list that holds a non-string).
AtsAnalysis(t, empty, score, src) ==
    [t |-> t, empty |-> empty, score |-> score, src |-> src]

NoAts == AtsAnalysis("none", TRUE, AbsentNum, "caller")

RequestAts ==
    { AtsAnalysis("absent", TRUE, AbsentNum, "caller"),
      NoAts,
      AtsAnalysis("dict", TRUE, AbsentNum, "caller"),
      AtsAnalysis("dict", FALSE, AbsentNum, "caller"),
      AtsAnalysis("dict", FALSE, NullNum, "caller"),
      AtsAnalysis("dict", FALSE, Num(0), "caller"),
      AtsAnalysis("dict", FALSE, Num(72), "caller"),
      AtsAnalysis("dict", FALSE, Num(72), "caller_badlist"),
      AtsAnalysis("dict", FALSE, NullNum, "caller_badlist"),
      AtsAnalysis("list", FALSE, AbsentNum, "caller") }

\* A project analysis: "absent", "none" or "dict"; rel lists the
\* relevanceScore of each entry of relevantProjects (-1: the entry has no
\* relevanceScore; -2: it holds null).
ProjectAnalysis(t, rel) == [t |-> t, rel |-> rel]

RequestProjects ==
    { ProjectAnalysis("absent", <<>>),
      ProjectAnalysis("none", <<>>),
      ProjectAnalysis("dict", <<>>),
      ProjectAnalysis("dict", <<80, 60, 40, 20>>),
      ProjectAnalysis("dict", <<90, -1>>),
      ProjectAnalysis("dict", <<90, -2>>),
      ProjectAnalysis("dict", <<80, 60, 40, -2>>) }

\* A request body.  description, experience: what job_data holds under
\* these keys ("str", "dict": as the prompts expect; "null"; experience also
\* "str", a string); projects: resume_data's projects, "list" or "null".
Request(r, j, edu, ats, proj, score, details) ==
    [resume_ok |-> r, job_ok |-> j, education |-> edu, ats_analysis |-> ats,
     project_analysis |-> proj, agentic_score |-> score,
     agentic_details |-> details,
     description |-> "str", experience |-> "dict", projects |-> "list"]

\* The request bodies: resume_data and job_data empty or not, the resume
\* with education entries or without, and the pre-computed inputs.
Requests ==
    { Request(TRUE, TRUE, TRUE, a, ProjectAnalysis("dict", <<80, 60, 40, 20>>),
              Num(75), "dict") : a \in RequestAts }
    \cup { Request(TRUE, TRUE, TRUE, a, p, Num(75), "dict") :
              a \in { AtsAnalysis("absent", TRUE, AbsentNum, "caller"),
                      AtsAnalysis("dict", FALSE, Num(72), "caller") },
              p \in RequestProjects }
    \cup { Request(TRUE, TRUE, FALSE, a, ProjectAnalysis("dict", <<>>),
                   Num(75), "dict") :
              a \in { NoAts, AtsAnalysis("dict", FALSE, Num(72), "caller") } }
    \cup { Request(TRUE, TRUE, TRUE, NoAts, ProjectAnalysis("absent", <<>>),
                   AbsentNum, d) : d \in {"absent", "null", "dict_badlist"} }
    \cup { Request(r, j, TRUE, NoAts, ProjectAnalysis("dict", <<>>),
                   Num(75), "dict") : r \in BOOLEAN, j \in BOOLEAN }
    \cup { [Request(TRUE, TRUE, TRUE, NoAts, ProjectAnalysis("dict", <<>>),
                    Num(75), "dict")
               EXCEPT !.description = x[1], !.experience = x[2],
                      !.projects = x[3]] :
             \* the shapes that make a stage raise while it builds its prompt
             x \in { <<"null", "dict", "list">>, <<"str", "null", "list">>,
                     <<"str", "str", "list">>, <<"str", "dict", "null">> } }

\* request.get(key, default) of recruiter_decision_endpoint
ArgAts(req) ==
    IF req.ats_analysis.t = "absent" THEN NoAts ELSE req.ats_analysis

ArgProject(req) ==
    IF req.project_analysis.t = "absent" THEN ProjectAnalysis("dict", <<>>)
    ELSE req.project_analysis

ArgAgenticScore(req) ==
    IF req.agentic_score.t = "absent" THEN Num(0) ELSE req.agentic_score

ArgAgenticDetails(req) ==
    IF req.agentic_details = "absent" THEN "dict" ELSE req.agentic_details

\* The five stages, in the order of the graph's edges.
Stages == <<"ats_analyzer", "profile_matcher", "college_tier_analyzer",
            "experience_evaluator", "decision_maker">>

StageSet == { Stages[i] : i \in 1..Len(Stages) }

\* Outcomes of a stage's oracle call: the client call raised; text that is no
\* JSON; JSON that is no object; a JSON object as the prompt asks for it.
DecOutcomes == {"raise", "badjson", "nondict", "dict"}

\* Also ("badlist"): a JSON object in which an entry the decision stage
\* joins ("strengths", "weaknesses", "matchingSkills") is null or a list
\* that holds a non-string.  The stages whose answer has such an entry:
ListStages == {"ats_analyzer", "profile_matcher", "experience_evaluator"}

StageOutcomes(stage) ==
    IF stage \in ListStages THEN DecOutcomes \cup {"badlist"} ELSE DecOutcomes

\* A rational number (Python's true division).
Ratio(n, d) == [num |-> n, den |-> d]

\* The state before any stage has written to it.
UnsetState ==
    [ats_score |-> AbsentNum, ats_analysis |-> NoAts,
     agentic_score |-> AbsentNum, agentic_details |-> "unset",
     project_score |-> Ratio(0, 1), project_analysis |-> ProjectAnalysis("none", <<>>),
     profile_match_score |-> AbsentNum, profile_match_details |-> "unset",
     college_tier |-> "unset", college_details |-> "unset",
     experience_level |-> "unset", experience_details |-> "unset",
     recommendation |-> "unset", confidence_score |-> AbsentNum,
     reasoning |-> "unset", key_factors |-> "unset"]

NoAnalysis ==
    [ats_score |-> AbsentNum, ats_analysis |-> NoAts,
     profile_match_score |-> AbsentNum, profile_match_details |-> "unset",
     college_tier |-> "unset", college_details |-> "unset",
     experience_level |-> "unset", experience_details |-> "unset",
     project_score |-> Ratio(0, 1), agentic_score |-> AbsentNum]

NoResult ==
    [returned |-> FALSE, success |-> FALSE, has_error |-> FALSE,
     recommendation |-> "unset", confidence_score |-> AbsentNum,
     reasoning |-> "unset", key_factors |-> "unset",
     has_analysis |-> FALSE, analysis |-> NoAnalysis]

NoDecReply == [status |-> 0, body |-> NoResult]

\* The recruiter-decision endpoint has not been called.
DecisionIdle ==
    /\ request = Request(TRUE, TRUE, TRUE, NoAts, ProjectAnalysis("dict", <<>>),
                         Num(0), "dict")
    /\ decPc = "idle"
    /\ decNode = "idle"
    /\ decState = UnsetState
    /\ decOracle = [st \in StageSet |-> ""]
    /\ decCalls = <<>>
    /\ decTrace = <<>>
    /\ decSearches = <<>>
    /\ decResult = NoResult
    /\ decReply = NoDecReply

\* ------------------------------------------------ batch_calculate_fit_scores

RangeLen_Floor(n) == n \div batch_size

\* len(range(0, n, batch_size)): the number of tasks the loop creates.
RangeLen(n) == IF n <= 0 THEN 0 ELSE ((n - 1) \div batch_size) + 1

\* total_batches = (len(jobs) + batch_size - 1) // batch_size
TotalBatches(n) == (n + batch_size - 1) \div batch_size

\* jobs[i:i + batch_size] for the k-th value i of range(0, len(jobs), batch_size)
Batch(js, k) ==
    SubSeq(js, (k - 1) * batch_size + 1, Min(k * batch_size, Len(js)))

Tasks == DOMAIN taskPc

\* client.chat.completions.create is the synchronous client's call and is
\* not awaited: a task that issues it keeps the event loop until it returns.
OracleCallSuspends == FALSE

SemaphoreAfterAcquire_Free(v) == v

\* Semaphore.acquire with a free permit: the value after it.
SemaphoreAfterAcquire(v) == v - 1

\* Leaving the block without giving the permit back.
SemaphoreAfterRelease_Leak(v) == v

\* Leaving "async with semaphore", normally or by an exception: the value
\* after the release.
SemaphoreAfterRelease(v) == v + 1

InFlight == { g \in Tasks : taskPc[g] = "calling" }

NoReply == [status |-> 0, success |-> FALSE, has_total |-> FALSE,
            scores |-> <<>>, total |-> 0]

\* The job counts a request is drawn from: around every batch boundary.
JobCounts == { n \in 0..MaxJobs : n % batch_size \in {0, 1, 5, 19} \/ n = MaxJobs }

\* The requests of a run: well-formed ones of every length; ones whose first
\* job has a string for experience, or whose 25th job has a null description;
\* ones whose resume holds numbers as skills, as a project's technologies
\* or as certifications, or a position with a null title; and two whose _id
\* values are no strings (the numbers 1 and 0; the empty array); and one of
\* three full groups over the same ids: the second group repeats the jobs of
\* the first, the third lists them in the opposite order.
BatchRequests ==
    { [resume_data |-> ResumeData("strs", "str", "strs", "strs"), jobs |-> JobList(n, 0, "dict", "str")] :
         n \in JobCounts }
    \cup { [resume_data |-> ResumeData("strs", "str", "strs", "strs"), jobs |-> JobList(n, 1, "str", "str")] :
              n \in JobCounts \ {0} }
    \cup { [resume_data |-> ResumeData("strs", "str", "strs", "strs"), jobs |-> JobList(n, 25, "absent", "null")] :
              n \in { m \in JobCounts : m >= 25 } }
    \cup { [resume_data |-> rd, jobs |-> JobList(n, 0, "dict", "str")] :
              rd \in { ResumeData("ints", "str", "strs", "strs"),
                       ResumeData("strs", "null", "strs", "strs"),
                       ResumeData("strs", "str", "ints", "strs"),
                       ResumeData("strs", "str", "strs", "ints") },
              n \in JobCounts }
    \cup { [resume_data |-> ResumeData("strs", "str", "strs", "strs"), jobs |-> js] :
              js \in { <<Job(IntId(1), "dict", "str"), Job(IntId(0), "dict", "str")>>,
                       <<Job(ListId, "dict", "str")>> } }
    \cup { [resume_data |-> ResumeData("strs", "str", "strs", "strs"),
            jobs |-> [i \in 1..n |->
                        Job(StrId(IF i <= 2 * batch_size
                                  THEN ((i - 1) % batch_size) + 1
                                  ELSE n + 1 - i), "dict", "str")]] :
              n \in { m \in {3 * batch_size} : m <= MaxJobs } }

InitBatch ==
    /\ \E r \in BatchRequests : resume_data = r.resume_data /\ jobs = r.jobs
    /\ epPc = "start"
    /\ batches = <<>>
    /\ taskPc = <<>>
    /\ semaphore = SemaphorePermits
    /\ running = 0
    /\ oracle = <<>>
    /\ batch_results = <<>>
    /\ taskRaised = <<>>
    /\ calls = 0
    /\ reply = NoReply
    /\ PrepIdle
    /\ DecisionIdle
    /\ HistoryIdle

\* if not jobs: return {"scores": []}
ReturnEmpty ==
    /\ epPc = "start"
    /\ jobs = <<>>
    /\ epPc' = "returned"
    /\ reply' = [status |-> 200, success |-> FALSE, has_total |-> FALSE,
                 scores |-> <<>>, total |-> 0]
    /\ UNCHANGED <<resume_data, jobs, batches, taskPc, semaphore, running, oracle,
                   batch_results, taskRaised, calls>>
    /\ UNCHANGED <<prepVars, decVars, histVars>>

\* The loop that slices jobs and creates one task per slice, up to the
\* await of asyncio.gather.
CreateTasks ==
    /\ epPc = "start"
    /\ jobs # <<>>
    /\ epPc' = "gather"
    /\ batches' = [g \in 1..RangeLen(Len(jobs)) |-> Batch(jobs, g)]
    /\ taskPc' = [g \in 1..RangeLen(Len(jobs)) |-> "pending"]
    /\ oracle' = [g \in 1..RangeLen(Len(jobs)) |-> ""]
    /\ batch_results' = [g \in 1..RangeLen(Len(jobs)) |-> <<>>]
    /\ taskRaised' = [g \in 1..RangeLen(Len(jobs)) |-> FALSE]
    /\ UNCHANGED <<resume_data, jobs, semaphore, running, calls, reply>>
    /\ UNCHANGED <<prepVars, decVars, histVars>>

\* A task starts (tasks start in the order gather was given them) and enters
\* "async with semaphore".
TaskAcquire(g) ==
    /\ epPc = "gather"
    /\ taskPc[g] = "pending"
    /\ \A h \in Tasks : h < g => taskPc[h] # "pending"
    /\ running = 0
    /\ semaphore > 0
    /\ semaphore' = SemaphoreAfterAcquire(semaphore)
    /\ taskPc' = [taskPc EXCEPT ![g] = "holding"]
    /\ running' = g
    /\ UNCHANGED <<resume_data, jobs, epPc, batches, oracle, batch_results, taskRaised,
                   calls, reply>>
    /\ UNCHANGED <<prepVars, decVars, histVars>>

\* process_batch builds the prompt and issues the oracle call; when building
\* the prompt raises, no call is issued: the exception leaves process_batch
\* and "async with" (which releases the permit) and ends the task.
TaskCall(g) ==
    /\ taskPc[g] = "holding"
    /\ running = g
    /\ IF PromptRaises(resume_data, batches[g])
       THEN /\ taskPc' = [taskPc EXCEPT ![g] = "done"]
            /\ taskRaised' = [taskRaised EXCEPT ![g] = TRUE]
            /\ semaphore' = SemaphoreAfterRelease(semaphore)
            /\ running' = 0
            /\ UNCHANGED calls
       ELSE /\ taskPc' = [taskPc EXCEPT ![g] = "calling"]
            /\ calls' = calls + 1
            /\ running' = IF OracleCallSuspends THEN 0 ELSE g
            /\ UNCHANGED <<semaphore, taskRaised>>
    /\ UNCHANGED <<resume_data, jobs, epPc, batches, oracle, batch_results, reply>>
    /\ UNCHANGED <<prepVars, decVars, histVars>>

\* The oracle call ends with an answer of shape sh; process_batch parses and
\* repairs it and returns, and the task leaves "async with" (which releases
\* the permit, also when an exception leaves the block).
TaskReturn(g, sh) ==
    /\ taskPc[g] = "calling"
    /\ running = (IF OracleCallSuspends THEN 0 ELSE g)
    /\ LET b == batches[g]
           r == ProcessBatch(resume_data, b, OracleAnswer(sh, b))
       IN  /\ oracle' = [oracle EXCEPT ![g] = sh]
           /\ batch_results' = [batch_results EXCEPT ![g] = r.scores]
           /\ taskRaised' = [taskRaised EXCEPT ![g] = r.raised]
    /\ semaphore' = SemaphoreAfterRelease(semaphore)
    /\ taskPc' = [taskPc EXCEPT ![g] = "done"]
    /\ running' = 0
    /\ UNCHANGED <<resume_data, jobs, epPc, batches, calls, reply>>
    /\ UNCHANGED <<prepVars, decVars, histVars>>

\* The results joined from the last group to the first.
Flatten_Reversed(results) ==
    Concat([i \in 1..Len(results) |-> results[Len(results) + 1 - i]])

\* for batch_scores in batch_results: all_scores.extend(batch_scores)
Flatten(results) == Concat(results)

\* asyncio.gather returns (every task is done) or raises (a task raised);
\* the endpoint flattens the results and returns, or answers HTTP 500.  The
\* event loop runs its callbacks in the order they were queued: the first
\* step of every task was queued before gather can learn of an exception, so
\* gather raises only when no task is left that could still start.
GatherReturn ==
    /\ epPc = "gather"
    /\ running = 0
    /\ \/ \A g \in Tasks : taskPc[g] = "done"
       \/ /\ \E g \in Tasks : taskRaised[g]
          /\ \A g \in Tasks : taskPc[g] = "pending" => semaphore = 0
    /\ epPc' = "returned"
    /\ reply' = IF \E g \in Tasks : taskRaised[g]
                THEN [status |-> 500, success |-> FALSE, has_total |-> FALSE,
                      scores |-> <<>>, total |-> 0]
                ELSE [status |-> 200, success |-> TRUE, has_total |-> TRUE,
                      scores |-> Flatten(batch_results),
                      total |-> Len(Flatten(batch_results))]
    /\ UNCHANGED <<resume_data, jobs, batches, taskPc, semaphore, running, oracle,
                   batch_results, taskRaised, calls>>
    /\ UNCHANGED <<prepVars, decVars, histVars>>

NextBatch ==
    \/ ReturnEmpty
    \/ CreateTasks
    \/ \E g \in Tasks : TaskAcquire(g)
    \/ \E g \in Tasks : TaskCall(g)
    \/ \E g \in Tasks, sh \in Shapes : TaskReturn(g, sh)
    \/ GatherReturn

SpecBatch == InitBatch /\ [][NextBatch]_vars

\* The same under the scheduling of the event loop: a coroutine that can run
\* is run, and every oracle call that was issued returns or fails.
SpecBatchFair == SpecBatch /\ WF_vars(NextBatch)

\* ---------------------------------------------- properties of the batch run

Returned == epPc = "returned"
DoneTasks == { g \in Tasks : taskPc[g] = "done" }

\* The tasks whose process_batch returned a list.
ReturnedTasks == { g \in DoneTasks : ~taskRaised[g] }

\* The ids of a list of score entries.
IdsOf(scores) == { EntryJobId(scores[k]) : k \in 1..Len(scores) }
Occurrences(scores, id) ==
    Cardinality({ k \in 1..Len(scores) : EntryJobId(scores[k]) = id })

\* A synthesized placeholder for the job: zero scores, no strengths, one gap.
IsPlaceholderFor(e, job) ==
    /\ e.t = "dict" /\ e.has_id /\ e.job_id = JobId(job)
    /\ e.fitScore = 0
    /\ e.breakdown = [skillsMatch |-> 0, experienceMatch |-> 0,
                      educationMatch |-> 0, overallAlignment |-> 0]
    /\ e.strengths = <<>>
    /\ Len(e.gaps) = 1
    /\ e.recommendation = "Not recommended"

\* The list the oracle's answer holds, under the spec's rules of location:
\* the answer itself, or the list under "scores", "results", "jobs" or any key.
AnswerListOf(sh, b) ==
    CASE sh \in {"scores_all", "list_all", "null_scores"} -> AllEntries(b)
      [] sh = "missing_last" -> SubSeq(AllEntries(b), 1, Len(b) - 1)
      [] sh = "extra_foreign" ->
            Append(AllEntries(b), GoodEntry(StrId(b[1].val + batch_size)))
      [] sh = "dup_first" -> <<GoodEntry(b[1])>> \o AllEntries(b)
      [] sh = "junk_entry" -> Append(AllEntries(b), NonDictEntry)
      [] sh = "out_of_range" -> [i \in 1..Len(b) |-> WildEntry(b[i])]
      [] OTHER -> <<>>

\* C1 (as claimed): whenever the endpoint has returned, it returned a score
\* list with exactly one entry per input job: as many entries as jobs, and
\* every input job id exactly once.
C1_Cardinality ==
    Returned =>
        /\ reply.status = 200
        /\ Len(reply.scores) = Len(jobs)
        /\ \A i \in 1..Len(jobs) : Occurrences(reply.scores, JobId(jobs[i])) = 1

\* C2 (as claimed): the result of every finished group holds entries for
\* exactly the group's expected job ids, no more and no fewer.
C2_KeySetExact ==
    \A g \in ReturnedTasks :
        IdsOf(batch_results[g]) = { JobId(batches[g][i]) : i \in 1..Len(batches[g]) }

\* C3 (as claimed): when the oracle's answer of a finished group holds a
\* result list, every job of the group without an entry in that list has a
\* placeholder in the group's result, and every entry of the list that is
\* for one of the group's ids is in the group's result unchanged.
C3_MissingRepaired ==
    \A g \in ReturnedTasks :
        oracle[g] \in {"scores_all", "list_all", "missing_last", "extra_foreign",
                       "dup_first", "junk_entry", "out_of_range"} =>
            LET b == batches[g]
                lst == AnswerListOf(oracle[g], b)
                res == batch_results[g]
                ids == { JobId(b[i]) : i \in 1..Len(b) }
            IN  /\ \A i \in 1..Len(b) :
                      (\A k \in 1..Len(lst) :
                           lst[k].t = "dict" => EntryJobId(lst[k]) # JobId(b[i]))
                      => \E k \in 1..Len(res) : IsPlaceholderFor(res[k], b[i])
                /\ \A k \in 1..Len(lst) :
                      (lst[k].t = "dict" /\ EntryJobId(lst[k]) \in ids)
                      => \E m \in 1..Len(res) : res[m] = lst[k]

\* C4 (as claimed): if every oracle call the run issued failed (the client
\* call raised), the endpoint returns one result per input job, in input
\* order, each with fitScore 0, recommendation "Not recommended" and a
\* non-empty gap list.
C4_AllFailPlaceholders ==
    (Returned /\ \A g \in Tasks : oracle[g] \in {"timeout", ""}) =>
        /\ reply.status = 200
        /\ Len(reply.scores) = Len(jobs)
        /\ \A k \in 1..Len(reply.scores) :
              /\ reply.scores[k].job_id = JobId(jobs[k])
              /\ reply.scores[k].fitScore = 0
              /\ reply.scores[k].recommendation = "Not recommended"
              /\ reply.scores[k].gaps # <<>>

\* The part of C4 that holds: when every group issued its call and every
\* call failed, the output is one placeholder per input job.
C4_WellFormedRequest ==
    (Returned /\ \A g \in Tasks : oracle[g] = "timeout") =>
        /\ reply.status = 200
        /\ Len(reply.scores) = Len(jobs)
        /\ \A k \in 1..Len(reply.scores) : IsPlaceholderFor(reply.scores[k], jobs[k])

\* The part of the flattened output that belongs to group g.
OutputSlice(g) ==
    LET before == Len(Concat(SubSeq(batch_results, 1, g - 1)))
    IN  SubSeq(reply.scores, before + 1, before + Len(batch_results[g]))

\* C5: a failed oracle call of one group gives exactly that group's ids
\* placeholders; it never aborts the run (a task that issued its call never
\* ends with an exception, and HTTP 500 is answered only when a group could
\* not build its prompt), never keeps a permit (a waiting group can still
\* start), and every group whose oracle call succeeded keeps the oracle's
\* scores for its jobs, in the task's result and in the endpoint's output.
C5_GroupIsolation ==
    /\ \A g \in Tasks :
          taskRaised[g] => oracle[g] = "" /\ PromptRaises(resume_data, batches[g])
    /\ reply.status = 500 => \E g \in Tasks : oracle[g] = "" /\ taskRaised[g]
    /\ (epPc = "gather" /\ running = 0) => semaphore = SemaphorePermits
    /\ \A g \in DoneTasks :
          /\ oracle[g] = "timeout" =>
                /\ Len(batch_results[g]) = Len(batches[g])
                /\ \A i \in 1..Len(batches[g]) :
                      IsPlaceholderFor(batch_results[g][i], batches[g][i])
          /\ oracle[g] = "scores_all" =>
                batch_results[g] = [i \in 1..Len(batches[g]) |-> GoodEntry(batches[g][i])]
    /\ Returned /\ jobs # <<>> =>
          /\ Tasks = DoneTasks
          /\ reply.status = 200 => \A g \in Tasks : OutputSlice(g) = batch_results[g]

C5_Witness ==
    /\ Returned
    /\ Cardinality(Tasks) >= 3
    /\ oracle[2] = "timeout"
    /\ \A g \in Tasks \ {2} : oracle[g] = "scores_all"
    /\ \A g \in Tasks \ {2} : \A i \in 1..Len(batches[g]) :
          /\ OutputSlice(g)[i].job_id = JobId(batches[g][i])
          /\ OutputSlice(g)[i].fitScore > 0

\* C6: at most 3 groups have an outstanding oracle call, and every
\* outstanding call is covered by a permit taken from the gate: the calls in
\* flight never exceed the permits missing from the semaphore.
C6_ConcurrencyBound ==
    /\ Cardinality(InFlight) <= 3
    /\ semaphore >= 0
    /\ Cardinality(InFlight) <= SemaphorePermits - semaphore

C6_Witness ==
    /\ Cardinality(Tasks) > SemaphorePermits
    /\ taskPc[4] = "calling"
    /\ semaphore < SemaphorePermits

\* C7: the executor forms ceil(n/20) groups, each a contiguous slice of at
\* most 20 jobs in input order, which together hold every input job exactly
\* once; 45 jobs give groups of sizes 20, 20, 5.
C7_Partition ==
    epPc # "start" =>
        LET n == Len(jobs)
            G == Len(batches)
        IN  /\ G * 20 >= n /\ (G > 0 => (G - 1) * 20 < n)
            /\ \A g \in 1..G :
                  /\ Len(batches[g]) >= 1 /\ Len(batches[g]) <= 20
                  /\ \A i \in 1..Len(batches[g]) :
                        batches[g][i] = jobs[(g - 1) * 20 + i]
            /\ Concat(batches) = jobs
            /\ n = 45 => [g \in 1..G |-> Len(batches[g])] = <<20, 20, 5>>

C7_Witness ==
    /\ epPc = "gather"
    /\ Len(jobs) = 45
    /\ Len(batches) = 3
    /\ Len(batches[3]) = 5

\* ------------------------------------------- the interview-prep graph nodes

\* company_research_node.  The three searches and the oracle call are each
\* inside try/except; s is what the searches returned, o the outcome of the
\* summary call ("raise", "text", or "none": a message without content).
\* raised: the node raises before its oracle call: title.lower() on a null
\* title, or the link extraction (outside every try) slicing the null title
\* of a search result; update: what it returns.
CompanyResearch(p, s, o) ==
    [raised |-> p.title_null \/ s = "null_title",
     update |->
        [company_info |-> CASE o = "raise" -> V("str", "default")
                            [] o = "none" -> NoneV
                            [] OTHER -> V("str", "oracle"),
         interview_links |-> V("list", "search"),
         role_level |-> V("str", RoleLevel(p.title, p.exp))]]

\* Whether a node's "call, json.loads in try/except, then .get on the value"
\* raises: the call is outside any try, and only an object has .get.
CallThenGetRaises(o) == o \in {"raise", "timeout_error", "null"}

\* len(x.get(key, [])) on the parsed object raises: the key holds null.
LenOfListRaises(o) == o = "dict_nulls"

\* How the worker thread ends when a node raises after the outcome o.
RaisedAs(o) == IF o = "timeout_error" THEN "raised_timeout" ELSE "raised"

\* The value a node binds after json.loads in try/except.
ParsedOrDefault(o) ==
    CASE o = "badjson" -> V("dict", "default")
      [] o = "null" -> NoneV
      [] o = "dict_nulls" -> V("dict", "oracle_nulls")
      [] OTHER -> V("dict", "oracle")

\* The system-design call is not followed by a .get on its value.
SdCallRaises(o) == o \in {"raise", "timeout_error"}

\* round_by_round_prep_node raises before its first call: the loop over
\* interview_rounds.get("rounds", []) on null, or company.lower() in the
\* prompt on a null company.
RoundPrepSetupRaises(st, p) ==
    st["interview_rounds"].src = "oracle_nulls" \/ p.company_null

\* The system-design call made for every role level.
NeedsSystemDesign_Always(st) == TRUE

\* if role_level in ["SDE-2", "Senior"]
NeedsSystemDesign(st) == st["role_level"].src \in {"SDE-2", "Senior"}

\* question_generator_node: static data
QuestionGenerator ==
    [common_questions |-> V("list", "static"),
     prepared_answers |-> V("list", "static")]

\* The graph merges a node's partial update into the state.
Merge(st, upd) == [k \in Keys |-> IF k \in DOMAIN upd THEN upd[k] ELSE st[k]]

\* ------------------------------------------------ generate_quick_interview_prep

\* The fallback oracle's answers: kind as for the batch oracle; for a JSON
\* object, has[k] is the JSON type of the value under key k, or "absent".
QuickKeys == {"company_info", "role_level", "interview_rounds", "dsa_prep",
              "system_design_prep", "behavioral_prep", "common_questions"}

FullAnswer ==
    [k \in QuickKeys |->
        CASE k \in {"company_info", "role_level"} -> "str"
          [] k = "common_questions" -> "list"
          [] OTHER -> "dict"]

QuickAnswer(kind, top, has) == [kind |-> kind, top |-> top, has |-> has]

QuickAnswers ==
    { QuickAnswer("raise", "null", [k \in QuickKeys |-> "absent"]),
      QuickAnswer("badjson", "null", [k \in QuickKeys |-> "absent"]),
      QuickAnswer("json", "list", [k \in QuickKeys |-> "absent"]),
      QuickAnswer("json", "dict", FullAnswer),
      QuickAnswer("json", "dict", [k \in QuickKeys |-> "absent"]),
      QuickAnswer("json", "dict", [FullAnswer EXCEPT !["interview_rounds"] = "absent"]),
      QuickAnswer("json", "dict", [FullAnswer EXCEPT !["dsa_prep"] = "null"]),
      QuickAnswer("json", "dict", [FullAnswer EXCEPT !["company_info"] = "null"]),
      \* dsa_prep an object whose top_15_questions is null
      QuickAnswer("json", "dict", [FullAnswer EXCEPT !["dsa_prep"] = "dict_nulls"]),
      \* behavioral_prep an object whose questions_to_ask is null
      QuickAnswer("json", "dict", [FullAnswer EXCEPT !["behavioral_prep"] = "dict_nulls"]) }

\* The try block raises at the client call only (json.loads of text that is
\* no JSON would not).
QuickRaises_CallOnly(a) == a.kind = "raise"

\* Whether the try block of generate_quick_interview_prep raises: the call,
\* json.loads, result.get on a non-object, .get on a dsa_prep or
\* behavioral_prep that is present and no object, or len() of a
\* top_15_questions that is null.
QuickRaises(a) ==
    \/ a.kind # "json"
    \/ a.top # "dict"
    \/ a.has["dsa_prep"] \notin {"absent", "dict"}
    \/ a.has["behavioral_prep"] \notin {"absent", "dict", "dict_nulls"}

\* result.get(k, default): the value under k, or the default
GetOr(a, k, default) ==
    IF a.has[k] = "absent" THEN default
    ELSE IF a.has[k] = "null" THEN NoneV
    ELSE IF a.has[k] = "dict_nulls" THEN V("dict", "fallback")
    ELSE V(a.has[k], "fallback")

\* "Return minimal fallback"
MinimalPrep(p) ==
    [k \in Keys |->
        CASE k \in {"company_info"} -> V("str", "hardcoded")
          [] k = "role_level" -> V("str", QuickRoleLevel(p.title))
          [] k \in {"interview_links", "common_questions", "prepared_answers"} ->
                V("list", "hardcoded")
          [] OTHER -> V("dict", "hardcoded")]

\* generate_quick_interview_prep(resume_data, job_data, application_id) when
\* its oracle call answers a.  raised: the function raises before its try
\* (and any call): resume_data.get on a list, role.lower() on a null title,
\* company.lower() in the prompt on a null company; state: what it returns.
QuickPrep(p, a) ==
    [raised |-> p.resume = "list" \/ p.title_null \/ p.company_null,
     state |->
        IF QuickRaises(a) THEN MinimalPrep(p)
        ELSE [k \in Keys |->
                CASE k = "company_info" -> GetOr(a, k, V("str", "hardcoded"))
                  [] k = "interview_links" -> V("list", "hardcoded")
                  [] k = "role_level" -> GetOr(a, k, V("str", QuickRoleLevel(p.title)))
                  [] k = "common_questions" -> GetOr(a, k, V("list", "hardcoded"))
                  [] k = "prepared_answers" ->
                        \* result.get("behavioral_prep", {}).get("questions_to_ask", [])
                        CASE a.has["behavioral_prep"] = "absent" -> V("list", "hardcoded")
                          [] a.has["behavioral_prep"] = "dict_nulls" -> NoneV
                          [] OTHER -> V("list", "fallback")
                  [] OTHER -> GetOr(a, k, NoneV)]]

\* ------------------------------------------------------------ prepare_interview

\* final_state.get(k, default) for the keys read with a default, and
\* final_state.get(k) for the others.
ResponseBody(fs) ==
    [k \in Keys |->
        IF fs[k].type # "absent" THEN fs[k]
        ELSE CASE k \in {"company_info", "role_level"} -> V("str", "hardcoded")
               [] k \in {"interview_links", "common_questions", "prepared_answers"} ->
                     V("list", "hardcoded")
               [] OTHER -> NoneV]

\* except asyncio.TimeoutError: the quick fallback is used
DeadlineHandler == "fallback"

\* The edges in another order: stage 3 before stage 2.
PrepEdge_Swapped(s) ==
    CASE s = "START" -> "company_research"
      [] s = "company_research" -> "round_by_round_prep"
      [] s = "round_by_round_prep" -> "interview_rounds_analyzer"
      [] s = "interview_rounds_analyzer" -> "question_generator"
      [] s = "question_generator" -> "finished"

\* build_interview_prep_graph: the entry point and the edges; "finished" is
\* END.
PrepEdge(s) ==
    CASE s = "START" -> "company_research"
      [] s = "company_research" -> "interview_rounds_analyzer"
      [] s = "interview_rounds_analyzer" -> "round_by_round_prep"
      [] s = "round_by_round_prep" -> "question_generator"
      [] s = "question_generator" -> "finished"

InitPrep ==
    /\ payload \in Payloads
    /\ prepPc = "start"
    /\ thread = "idle"
    /\ state = InitialState
    /\ node3 = [dsa_prep |-> NoneV, system_design_prep |-> NoneV]
    /\ prepOracle = [c \in CallSites |-> ""]
    /\ timedOut = FALSE
    /\ fallbackCalls = 0
    /\ fallbackState = [k \in Keys |-> AbsentV]
    /\ deadlineState = InitialState
    /\ prepReply = NoPrepReply
    /\ resume_data = ResumeData("strs", "str", "strs", "strs") /\ jobs = <<>> /\ epPc = "idle" /\ batches = <<>> /\ taskPc = <<>>
    /\ semaphore = SemaphorePermits /\ running = 0 /\ oracle = <<>>
    /\ batch_results = <<>> /\ taskRaised = <<>> /\ calls = 0 /\ reply = NoReply
    /\ DecisionIdle
    /\ HistoryIdle

\* The prints that read job_data raise (except Exception: HTTP 500), or
\* if not resume_data or not job_data: HTTP 400
RejectPayload ==
    /\ prepPc = "start"
    /\ PayloadRaises(payload) \/ PayloadMissing(payload)
    /\ prepPc' = "returned"
    /\ prepReply' = [NoPrepReply EXCEPT
                        !.status = IF PayloadRaises(payload) THEN 500 ELSE 400]
    /\ UNCHANGED <<payload, thread, state, node3, prepOracle, timedOut,
                   fallbackCalls, fallbackState,
                   deadlineState>>
    /\ UNCHANGED <<batchVars, decVars, histVars>>

\* The graph is built and handed, with initial_state, to a worker thread;
\* the endpoint waits for it with a timeout of 240 s.
StartGraph ==
    /\ prepPc = "start"
    /\ ~PayloadRaises(payload) /\ ~PayloadMissing(payload)
    /\ prepPc' = "waiting"
    /\ thread' = PrepEdge("START")
    /\ state' = InitialState
    /\ UNCHANGED <<payload, node3, prepOracle, timedOut, fallbackCalls,
                   fallbackState, deadlineState,
                   prepReply>>
    /\ UNCHANGED <<batchVars, decVars, histVars>>

\* Node 1 runs: it returns its update, or raises before its oracle call.
CompanyResearchNode(s, o) ==
    /\ thread = "company_research"
    /\ IF CompanyResearch(payload, s, o).raised
       THEN thread' = "raised" /\ UNCHANGED <<prepOracle, state>>
       ELSE /\ prepOracle' = [prepOracle EXCEPT !["summary"] = o]
            /\ state' = Merge(state, CompanyResearch(payload, s, o).update)
            /\ thread' = PrepEdge("company_research")
    /\ UNCHANGED <<payload, prepPc, node3, timedOut, fallbackCalls,
                   fallbackState, deadlineState,
                   prepReply>>
    /\ UNCHANGED <<batchVars, decVars, histVars>>

\* Node 2 runs: it returns interview_rounds, or raises.
InterviewRoundsNode(o) ==
    /\ thread = "interview_rounds_analyzer"
    /\ prepOracle' = [prepOracle EXCEPT !["rounds"] = o]
    /\ IF CallThenGetRaises(o)
       THEN thread' = RaisedAs(o) /\ state' = state
       ELSE /\ thread' = PrepEdge("interview_rounds_analyzer")
            /\ state' = Merge(state, [interview_rounds |-> ParsedOrDefault(o)])
    /\ UNCHANGED <<payload, prepPc, node3, timedOut, fallbackCalls,
                   fallbackState, deadlineState,
                   prepReply>>
    /\ UNCHANGED <<batchVars, decVars, histVars>>

\* Node 3, DSA part, then the system-design part when no oracle call is made
\* for it (the static guidance for Fresher and SDE-1).  The node can raise
\* before the call (no call is issued then), at the call, or at the len()
\* that follows it.
RoundPrepDsa(o) ==
    /\ thread = "round_by_round_prep"
    /\ IF RoundPrepSetupRaises(state, payload)
       THEN thread' = "raised" /\ UNCHANGED <<prepOracle, node3>>
       ELSE /\ prepOracle' = [prepOracle EXCEPT !["dsa"] = o]
            /\ IF CallThenGetRaises(o) \/ LenOfListRaises(o)
               THEN thread' = RaisedAs(o) /\ node3' = node3
               ELSE IF NeedsSystemDesign(state)
               THEN /\ thread' = "round_by_round_prep_sd"
                    /\ node3' = [node3 EXCEPT !.dsa_prep = ParsedOrDefault(o)]
               ELSE /\ thread' = "round_by_round_prep_behavioral"
                    /\ node3' = [dsa_prep |-> ParsedOrDefault(o),
                                 system_design_prep |-> V("dict", "static")]
    /\ UNCHANGED <<payload, prepPc, state, timedOut, fallbackCalls,
                   fallbackState, deadlineState,
                   prepReply>>
    /\ UNCHANGED <<batchVars, decVars, histVars>>

\* Node 3, the system-design call of SDE-2 and Senior roles.
RoundPrepSystemDesign(o) ==
    /\ thread = "round_by_round_prep_sd"
    /\ prepOracle' = [prepOracle EXCEPT !["sd"] = o]
    /\ IF SdCallRaises(o)
       THEN thread' = RaisedAs(o) /\ node3' = node3
       ELSE /\ thread' = "round_by_round_prep_behavioral"
            /\ node3' = [node3 EXCEPT !.system_design_prep = ParsedOrDefault(o)]
    /\ UNCHANGED <<payload, prepPc, state, timedOut, fallbackCalls,
                   fallbackState, deadlineState,
                   prepReply>>
    /\ UNCHANGED <<batchVars, decVars, histVars>>

\* Node 3, behavioral part, and the node's return.
RoundPrepBehavioral(o) ==
    /\ thread = "round_by_round_prep_behavioral"
    /\ prepOracle' = [prepOracle EXCEPT !["behavioral"] = o]
    /\ IF CallThenGetRaises(o) \/ LenOfListRaises(o)
       THEN thread' = RaisedAs(o) /\ state' = state
       ELSE /\ thread' = PrepEdge("round_by_round_prep")
            /\ state' = Merge(state, [dsa_prep |-> node3.dsa_prep,
                                      system_design_prep |-> node3.system_design_prep,
                                      behavioral_prep |-> ParsedOrDefault(o)])
    /\ UNCHANGED <<payload, prepPc, node3, timedOut, fallbackCalls,
                   fallbackState, deadlineState,
                   prepReply>>
    /\ UNCHANGED <<batchVars, decVars, histVars>>

\* Node 4 runs and graph.invoke returns.
QuestionGeneratorNode ==
    /\ thread = "question_generator"
    /\ state' = Merge(state, QuestionGenerator)
    /\ thread' = PrepEdge("question_generator")
    /\ UNCHANGED <<payload, prepPc, node3, prepOracle, timedOut, fallbackCalls,
                   fallbackState, deadlineState,
                   prepReply>>
    /\ UNCHANGED <<batchVars, decVars, histVars>>

\* wait_for returns the graph's final state: the endpoint answers with it.
GraphCompleted ==
    /\ prepPc = "waiting"
    /\ thread = "finished"
    /\ prepPc' = "returned"
    /\ prepReply' = [status |-> 200, body |-> ResponseBody(state)]
    /\ UNCHANGED <<payload, thread, state, node3, prepOracle, timedOut,
                   fallbackCalls, fallbackState,
                   deadlineState>>
    /\ UNCHANGED <<batchVars, decVars, histVars>>

\* wait_for re-raises the graph's exception.  A TimeoutError is caught by
\* except asyncio.TimeoutError, which calls the quick fallback; any other
\* exception by except Exception: HTTP 500.
GraphFailed ==
    /\ prepPc = "waiting"
    /\ thread \in {"raised", "raised_timeout"}
    /\ IF thread = "raised_timeout" /\ DeadlineHandler = "fallback"
       THEN /\ prepPc' = "fallback"
            /\ fallbackCalls' = fallbackCalls + 1
            /\ deadlineState' = state
            /\ prepReply' = prepReply
       ELSE /\ prepPc' = "returned"
            /\ prepReply' = [NoPrepReply EXCEPT !.status = 500]
            /\ UNCHANGED <<fallbackCalls, deadlineState>>
    /\ UNCHANGED <<payload, thread, state, node3, prepOracle, timedOut,
                   fallbackState>>
    /\ UNCHANGED <<batchVars, decVars, histVars>>

\* The 240 s pass before graph.invoke ends: wait_for raises TimeoutError (the
\* worker thread is not stopped) and the endpoint calls the quick fallback.
Deadline ==
    /\ prepPc = "waiting"
    /\ thread \notin {"finished", "raised", "raised_timeout"}
    /\ timedOut' = TRUE
    /\ IF DeadlineHandler = "fallback"
       THEN /\ prepPc' = "fallback"
            /\ fallbackCalls' = fallbackCalls + 1
            /\ prepReply' = prepReply
       ELSE /\ prepPc' = "returned"
            /\ fallbackCalls' = fallbackCalls
            /\ prepReply' = [NoPrepReply EXCEPT !.status = 500]
    /\ deadlineState' = state
    /\ UNCHANGED <<payload, thread, state, node3, prepOracle, fallbackState>>
    /\ UNCHANGED <<batchVars, decVars, histVars>>

\* generate_quick_interview_prep's oracle call ends with answer a; the
\* function returns and the endpoint answers with what it returned.  When
\* the function raises before its call, except Exception answers HTTP 500.
FallbackReturn(a) ==
    /\ prepPc = "fallback"
    /\ IF QuickPrep(payload, a).raised
       THEN /\ prepReply' = [NoPrepReply EXCEPT !.status = 500]
            /\ UNCHANGED <<prepOracle, fallbackState>>
       ELSE /\ prepOracle' = [prepOracle EXCEPT !["fallback"] =
                                IF a.kind = "json" THEN a.top ELSE a.kind]
            /\ fallbackState' = QuickPrep(payload, a).state
            /\ prepReply' = [status |-> 200,
                             body |-> ResponseBody(QuickPrep(payload, a).state)]
    /\ prepPc' = "returned"
    /\ UNCHANGED <<payload, thread, state, node3, timedOut, fallbackCalls,
                   deadlineState>>
    /\ UNCHANGED <<batchVars, decVars, histVars>>

NextPrep ==
    \/ RejectPayload
    \/ StartGraph
    \/ \E s \in SearchResults, o \in {"raise", "text", "none"} : CompanyResearchNode(s, o)
    \/ \E o \in Outcomes : InterviewRoundsNode(o)
    \/ \E o \in Outcomes : RoundPrepDsa(o)
    \/ \E o \in Outcomes : RoundPrepSystemDesign(o)
    \/ \E o \in Outcomes : RoundPrepBehavioral(o)
    \/ QuestionGeneratorNode
    \/ GraphCompleted
    \/ GraphFailed
    \/ Deadline
    \/ \E a \in QuickAnswers : FallbackReturn(a)

SpecPrep == InitPrep /\ [][NextPrep]_vars

\* ------------------------------------ properties of the interview-prep run

PipelineCalls == {"summary", "rounds", "dsa", "sd", "behavioral"}

\* The oracle call of the site failed: timeout or unavailability (the call
\* raised), or output that does not parse.
CallFailed(c) == prepOracle[c] \in {"raise", "timeout_error", "badjson"}

\* C8 (as claimed): a failed oracle call of a stage never makes graph.invoke
\* raise and never reaches the caller as an error; the stage whose call
\* failed writes a default for its output key.  (Runs in which the oracle
\* answered some call with JSON that is no object are left aside.)
C8_StageFailureNonFatal ==
    (\A c \in PipelineCalls : prepOracle[c] # "null") =>
        /\ (\E c \in PipelineCalls : CallFailed(c)) =>
              (thread \notin {"raised", "raised_timeout"} /\ prepReply.status # 500)
        /\ CallFailed("summary") => state["company_info"] = V("str", "default")
        /\ CallFailed("rounds") => state["interview_rounds"] = V("dict", "default")

\* C9 (as claimed): every response the endpoint returns holds a non-null
\* value for each of the nine declared output keys.
C9_ResponseComplete ==
    prepReply.status = 200 =>
        \A k \in Keys : prepReply.body[k].type \notin {"null", "absent"}

\* C10 (as claimed): once the deadline has passed before the graph ended,
\* the quick fallback has been invoked exactly once, and the endpoint then
\* answers 200 with the state the fallback returned, never with an error; a
\* graph that ended before the deadline answers without any fallback call.
C10_DeadlineFallback ==
    /\ timedOut => (fallbackCalls = 1 /\ prepPc \in {"fallback", "returned"})
    /\ (timedOut /\ prepPc = "returned") =>
          /\ prepReply.status = 200
          /\ prepReply.body = fallbackState
    /\ (~timedOut /\ thread = "finished") => fallbackCalls = 0

\* ------------------------------------------- the fallback's own failure

\* C11: when the fallback's own oracle call raised or answered text that is
\* no JSON, generate_quick_interview_prep returns (the endpoint answers 200
\* with what it returned) the hard-coded minimal state: every declared key
\* holds a non-null hard-coded default, the role level being the one the
\* function derived from the title.
C11_FallbackFailure ==
    (prepPc = "returned" /\ prepOracle["fallback"] \in {"raise", "badjson"}) =>
        /\ prepReply.status = 200
        /\ prepReply.body = fallbackState
        /\ \A k \in Keys :
              /\ fallbackState[k].type \notin {"null", "absent"}
              /\ fallbackState[k].src =
                    (IF k = "role_level" THEN QuickRoleLevel(payload.title)
                     ELSE "hardcoded")

C11_Witness ==
    /\ prepPc = "returned"
    /\ prepOracle["fallback"] = "badjson"
    /\ prepReply.status = 200
    /\ fallbackState["interview_rounds"] = V("dict", "hardcoded")
    /\ fallbackState["role_level"] = V("str", "Senior")

\* ------------------------------------------- the recruiter-decision stages

RECURSIVE SumScores(_)
\* sum(scores), with p.get("relevanceScore", 0) for an entry without the key
SumScores(rel) ==
    IF rel = <<>> THEN 0
    ELSE (IF Head(rel) < 0 THEN 0 ELSE Head(rel)) + SumScores(Tail(rel))

\* The mean taken over every relevant project instead of the first three.
ProjectScore_AllProjects(pa) ==
    IF pa.t = "dict" /\ pa.rel # <<>>
    THEN Ratio(SumScores(pa.rel), Len(pa.rel))
    ELSE Ratio(0, 1)

\* "Calculate project score from project analysis"
ProjectScore(pa) ==
    IF pa.t = "dict" /\ pa.rel # <<>>
    THEN Ratio(SumScores(SubSeq(pa.rel, 1, Min(3, Len(pa.rel)))), Min(3, Len(pa.rel)))
    ELSE Ratio(0, 1)

\* sum(scores) raises: one of the first three entries holds null.
ProjectScoreRaises(pa) ==
    /\ pa.t = "dict"
    /\ \E i \in 1..Min(3, Len(pa.rel)) : pa.rel[i] = -2

\* The endpoint's print of ats_analysis.get('score', 0) raises: the value
\* is truthy and no mapping.
EndpointPrintRaises(req) == ArgAts(req).t = "list"

\* x and x.get("score") is not None
HasScore(ats) == ats.t = "dict" /\ ~ats.empty /\ ats.score.t \notin {"absent", "null"}

\* initial_state of get_recruiter_decision
DecInitialState(req) ==
    [UnsetState EXCEPT
        !.agentic_score = ArgAgenticScore(req),
        !.agentic_details = ArgAgenticDetails(req),
        !.project_score = ProjectScore(ArgProject(req)),
        !.project_analysis = ArgProject(req),
        !.ats_analysis = ArgAts(req),
        !.ats_score = IF HasScore(ArgAts(req)) THEN ArgAts(req).score ELSE AbsentNum]

\* The pre-calculated analysis is never taken.
AtsSkips_Never(st) == FALSE

\* ats_analyzer_node: "Check if ATS analysis already exists"
AtsSkips(st) == HasScore(st.ats_analysis)

\* ats_analyzer_node's return value; o is the outcome of its oracle call
AtsAnalyzer(st, o) ==
    IF AtsSkips(st)
    THEN [ats_score |-> st.ats_analysis.score, ats_analysis |-> st.ats_analysis]
    ELSE IF o \in {"dict", "badlist"}
    THEN [ats_score |-> Num(72),
          ats_analysis |-> AtsAnalysis("dict", FALSE, Num(72),
                              IF o = "dict" THEN "oracle" ELSE "oracle_badlist")]
    ELSE [ats_score |-> Num(0),
          ats_analysis |-> AtsAnalysis("dict", FALSE, Num(0), "default")]

\* profile_matcher_node's return value
ProfileMatcher(o) ==
    IF o \in {"dict", "badlist"}
    THEN [profile_match_score |-> Num(64),
          profile_match_details |-> IF o = "dict" THEN "oracle" ELSE "oracle_badlist"]
    ELSE [profile_match_score |-> Num(0), profile_match_details |-> "default"]

\* experience_evaluator_node builds its prompt outside the try:
\* json.dumps(projects[:5]) raises on null projects,
\* job_data.get("experience", {}).get("display", ...) on a null or string
\* experience, job_data.get("description", "")[:500] on a null description.
ExperienceEvaluatorRaises(req) ==
    \/ req.projects = "null"
    \/ req.experience \in {"null", "str"}
    \/ req.description = "null"

\* college_tier_analyzer_node's return value; edu: the resume has education
CollegeTier(edu, o) ==
    IF ~edu THEN [college_tier |-> "Unknown", college_details |-> "no_education"]
    ELSE IF o = "dict" THEN [college_tier |-> "TIER 1", college_details |-> "oracle"]
    ELSE [college_tier |-> "Unknown", college_details |-> "default"]

\* The outcomes of the stage's three web searches, in the order of
\* search_queries.
SearchOutcomes ==
    { <<"ok", "ok", "ok">>, <<"fail", "ok", "ok">>, <<"fail", "fail", "fail">> }

\* for query in search_queries: one search each; none without education
CollegeSearches(edu, outs) == IF edu THEN outs ELSE <<>>

\* A failed search ending the stage.
CollegeSearchRaises_Propagate(outs) == \E i \in 1..Len(outs) : outs[i] = "fail"

\* Whether a failed search leaves the stage as an exception: each search
\* is in a try of its own, inside the try around the whole search block.
CollegeSearchRaises(outs) == FALSE

\* experience_evaluator_node's return value
ExperienceEvaluator(o) ==
    IF o \in {"dict", "badlist"}
    THEN [experience_level |-> "Medium",
          experience_details |-> IF o = "dict" THEN "oracle" ELSE "oracle_badlist"]
    ELSE [experience_level |-> "None", experience_details |-> "default"]

\* decision_maker_node builds its prompt outside the try: .get on a details
\* value that is None raises, and so does [:3] on a list entry that is None
\* and ', '.join of a list that holds a non-string.
DecisionPromptRaises(st) ==
    \/ st.agentic_details \in {"null", "dict_badlist"}
    \/ st.project_analysis.t = "none"
    \/ st.ats_analysis.src \in {"oracle_badlist", "caller_badlist"}
    \/ st.profile_match_details = "oracle_badlist"
    \/ st.experience_details = "oracle_badlist"

\* The decision oracle's answers: kind as DecOutcomes; for an object, its
\* "recommendation" ("absent": no such key) and "confidenceScore".
DecisionAnswer(kind, rec, conf) == [kind |-> kind, rec |-> rec, conf |-> conf]

DecisionAnswers ==
    { DecisionAnswer(k, "absent", AbsentNum) : k \in {"raise", "badjson", "nondict"} }
    \cup { DecisionAnswer("dict", "Strong Accept", Num(95)),
           DecisionAnswer("dict", "Accept", Num(100)),
           DecisionAnswer("dict", "Consider", Num(0)),
           DecisionAnswer("dict", "Reject", Num(20)),
           DecisionAnswer("dict", "absent", AbsentNum),
           DecisionAnswer("dict", "Maybe", Num(85)),
           DecisionAnswer("dict", "Accept", Num(150)),
           DecisionAnswer("dict", "Accept", NullNum) }

\* result.get(key, default) on a number
GetNum(x, default) == IF x.t = "absent" THEN Num(default) ELSE x

\* The fixed answer of the except branch.
DecisionDefault ==
    [recommendation |-> "Consider", confidence_score |-> Num(50),
     reasoning |-> "unable", key_factors |-> "empty",
     suggestion |-> "manual"]

\* decision_maker_node's return value when its oracle call answers a
DecisionMaker(a) ==
    IF a.kind = "dict"
    THEN [recommendation |-> IF a.rec = "absent" THEN "Consider" ELSE a.rec,
          confidence_score |-> GetNum(a.conf, 0),
          reasoning |-> "oracle", key_factors |-> "oracle",
          suggestion |-> "oracle"]
    ELSE DecisionDefault

\* The graph writes the entries of a node's return value whose keys are
\* channels of RecruiterDecisionState.
DecMerge(st, upd) ==
    [k \in DOMAIN st |-> IF k \in DOMAIN upd THEN upd[k] ELSE st[k]]

\* result.get(key, default) on a text or a details mapping
GetOrDefault(x, default) == IF x = "unset" THEN default ELSE x

\* get_recruiter_decision's return value after graph.invoke returned st
SuccessResult(st, req) ==
    [returned |-> TRUE, success |-> TRUE, has_error |-> FALSE,
     recommendation |-> GetOrDefault(st.recommendation, "Consider"),
     confidence_score |-> GetNum(st.confidence_score, 0),
     reasoning |-> GetOrDefault(st.reasoning, ""),
     key_factors |-> GetOrDefault(st.key_factors, "empty"),
     has_analysis |-> TRUE,
     analysis |->
        [ats_score |-> GetNum(st.ats_score, 0),
         ats_analysis |-> st.ats_analysis,
         profile_match_score |-> GetNum(st.profile_match_score, 0),
         profile_match_details |-> GetOrDefault(st.profile_match_details, "empty"),
         college_tier |-> GetOrDefault(st.college_tier, "Unknown"),
         college_details |-> GetOrDefault(st.college_details, "empty"),
         experience_level |-> GetOrDefault(st.experience_level, "None"),
         experience_details |-> GetOrDefault(st.experience_details, "empty"),
         project_score |-> ProjectScore(ArgProject(req)),
         agentic_score |-> ArgAgenticScore(req)]]

\* get_recruiter_decision's return value from its except branch
ErrorResult ==
    [NoResult EXCEPT !.returned = TRUE, !.has_error = TRUE,
                     !.recommendation = "Consider",
                     !.confidence_score = Num(0),
                     !.reasoning = "workflow_failed"]

\* --------------------------------------------- recruiter_decision_endpoint

InitDecision ==
    /\ request \in Requests
    /\ decPc = "start"
    /\ decNode = "idle"
    /\ decState = UnsetState
    /\ decOracle = [st \in StageSet |-> ""]
    /\ decCalls = <<>>
    /\ decTrace = <<>>
    /\ decSearches = <<>>
    /\ decResult = NoResult
    /\ decReply = NoDecReply
    /\ resume_data = ResumeData("strs", "str", "strs", "strs") /\ jobs = <<>> /\ epPc = "idle" /\ batches = <<>> /\ taskPc = <<>>
    /\ semaphore = SemaphorePermits /\ running = 0 /\ oracle = <<>>
    /\ batch_results = <<>> /\ taskRaised = <<>> /\ calls = 0 /\ reply = NoReply
    /\ PrepIdle
    /\ HistoryIdle

\* if not resume_data or not job_data: HTTP 400
DecRejectRequest ==
    /\ decPc = "start"
    /\ ~(request.resume_ok /\ request.job_ok)
    /\ decPc' = "returned"
    /\ decReply' = [NoDecReply EXCEPT !.status = 400]
    /\ UNCHANGED <<decSearches, request, decNode, decState, decOracle, decCalls, decTrace,
                   decResult>>
    /\ UNCHANGED <<batchVars, prepVars, histVars>>

\* The endpoint's prints raise (except Exception: HTTP 500, the function
\* is not called); or the endpoint hands get_recruiter_decision to a worker
\* thread: the function's try raises at the project score before the graph
\* runs, or it builds initial_state and calls graph.invoke.
DecStart ==
    /\ decPc = "start"
    /\ request.resume_ok /\ request.job_ok
    /\ IF EndpointPrintRaises(request)
       THEN /\ decPc' = "returned"
            /\ decReply' = [NoDecReply EXCEPT !.status = 500]
            /\ UNCHANGED <<decNode, decState>>
       ELSE IF ProjectScoreRaises(ArgProject(request))
       THEN /\ decPc' = "waiting"
            /\ decNode' = "raised"
            /\ UNCHANGED <<decState, decReply>>
       ELSE /\ decPc' = "waiting"
            /\ decNode' = Stages[1]
            /\ decState' = DecInitialState(request)
            /\ decReply' = decReply
    /\ UNCHANGED <<decSearches, request, decOracle, decCalls, decTrace, decResult>>
    /\ UNCHANGED <<batchVars, prepVars, histVars>>

\* Stage 1 runs: the pre-calculated analysis is taken, or the oracle is asked.
AtsAnalyzerNode(o) ==
    /\ decNode = "ats_analyzer"
    /\ decTrace' = Append(decTrace, "ats_analyzer")
    /\ IF AtsSkips(decState)
       THEN UNCHANGED <<decOracle, decCalls>>
       ELSE /\ decOracle' = [decOracle EXCEPT !["ats_analyzer"] = o]
            /\ decCalls' = Append(decCalls, "ats_analyzer")
    /\ decState' = DecMerge(decState, AtsAnalyzer(decState, o))
    /\ decNode' = "profile_matcher"
    /\ UNCHANGED <<decSearches, request, decPc, decResult, decReply>>
    /\ UNCHANGED <<batchVars, prepVars, histVars>>

\* Stage 2 runs: it raises while it builds its prompt, outside the try
\* (job_data.get("description", "")[:500] on a null description), or asks
\* the oracle.
ProfileMatcherNode(o) ==
    /\ decNode = "profile_matcher"
    /\ decTrace' = Append(decTrace, "profile_matcher")
    /\ IF request.description = "null"
       THEN /\ decNode' = "raised"
            /\ UNCHANGED <<decOracle, decCalls, decState>>
       ELSE /\ decOracle' = [decOracle EXCEPT !["profile_matcher"] = o]
            /\ decCalls' = Append(decCalls, "profile_matcher")
            /\ decState' = DecMerge(decState, ProfileMatcher(o))
            /\ decNode' = "college_tier_analyzer"
    /\ UNCHANGED <<decSearches, request, decPc, decResult, decReply>>
    /\ UNCHANGED <<batchVars, prepVars, histVars>>

\* Stage 3 runs: without education it returns at once; otherwise it searches
\* the web (outs: the outcomes of the searches) and asks the oracle.
CollegeTierNode(o, outs) ==
    /\ decNode = "college_tier_analyzer"
    /\ decTrace' = Append(decTrace, "college_tier_analyzer")
    /\ decSearches' = CollegeSearches(request.education, outs)
    /\ IF request.education /\ CollegeSearchRaises(outs)
       THEN /\ decNode' = "raised"
            /\ UNCHANGED <<decOracle, decCalls, decState>>
       ELSE /\ IF ~request.education
               THEN UNCHANGED <<decOracle, decCalls>>
               ELSE /\ decOracle' = [decOracle EXCEPT !["college_tier_analyzer"] = o]
                    /\ decCalls' = Append(decCalls, "college_tier_analyzer")
            /\ decState' = DecMerge(decState, CollegeTier(request.education, o))
            /\ decNode' = "experience_evaluator"
    /\ UNCHANGED <<request, decPc, decResult, decReply>>
    /\ UNCHANGED <<batchVars, prepVars, histVars>>

\* Stage 4 runs: it raises while it builds its prompt, or asks the oracle.
ExperienceEvaluatorNode(o) ==
    /\ decNode = "experience_evaluator"
    /\ decTrace' = Append(decTrace, "experience_evaluator")
    /\ IF ExperienceEvaluatorRaises(request)
       THEN /\ decNode' = "raised"
            /\ UNCHANGED <<decOracle, decCalls, decState>>
       ELSE /\ decOracle' = [decOracle EXCEPT !["experience_evaluator"] = o]
            /\ decCalls' = Append(decCalls, "experience_evaluator")
            /\ decState' = DecMerge(decState, ExperienceEvaluator(o))
            /\ decNode' = "decision_maker"
    /\ UNCHANGED <<decSearches, request, decPc, decResult, decReply>>
    /\ UNCHANGED <<batchVars, prepVars, histVars>>

\* Stage 5 runs: it raises while it builds its prompt, or asks the oracle
\* and the graph ends.
DecisionMakerNode(a) ==
    /\ decNode = "decision_maker"
    /\ decTrace' = Append(decTrace, "decision_maker")
    /\ IF DecisionPromptRaises(decState)
       THEN /\ decNode' = "raised"
            /\ UNCHANGED <<decOracle, decCalls, decState>>
       ELSE /\ decNode' = "END"
            /\ decOracle' = [decOracle EXCEPT !["decision_maker"] = a.kind]
            /\ decCalls' = Append(decCalls, "decision_maker")
            /\ decState' = DecMerge(decState, DecisionMaker(a))
    /\ UNCHANGED <<decSearches, request, decPc, decResult, decReply>>
    /\ UNCHANGED <<batchVars, prepVars, histVars>>

\* graph.invoke returned: get_recruiter_decision returns the success
\* mapping, which the endpoint returns.
WorkflowComplete ==
    /\ decPc = "waiting"
    /\ decNode = "END"
    /\ decResult' = SuccessResult(decState, request)
    /\ decReply' = [status |-> 200, body |-> SuccessResult(decState, request)]
    /\ decPc' = "returned"
    /\ UNCHANGED <<decSearches, request, decNode, decState, decOracle, decCalls, decTrace>>
    /\ UNCHANGED <<batchVars, prepVars, histVars>>

\* The try of get_recruiter_decision raised (the project score, or
\* graph.invoke): get_recruiter_decision returns the error mapping;
\* the endpoint, on "not result.get('success')", raises HTTP 500.
WorkflowError ==
    /\ decPc = "waiting"
    /\ decNode = "raised"
    /\ decResult' = ErrorResult
    /\ decReply' = [NoDecReply EXCEPT !.status = 500]
    /\ decPc' = "returned"
    /\ UNCHANGED <<decSearches, request, decNode, decState, decOracle, decCalls, decTrace>>
    /\ UNCHANGED <<batchVars, prepVars, histVars>>

NextDecision ==
    \/ DecRejectRequest
    \/ DecStart
    \/ \E o \in StageOutcomes("ats_analyzer") : AtsAnalyzerNode(o)
    \/ \E o \in StageOutcomes("profile_matcher") : ProfileMatcherNode(o)
    \/ \E o \in StageOutcomes("college_tier_analyzer"), outs \in SearchOutcomes :
          CollegeTierNode(o, outs)
    \/ \E o \in StageOutcomes("experience_evaluator") : ExperienceEvaluatorNode(o)
    \/ \E a \in DecisionAnswers : DecisionMakerNode(a)
    \/ WorkflowComplete
    \/ WorkflowError

SpecDecision == InitDecision /\ [][NextDecision]_vars

\* ---------------------------------- properties of the recruiter decision

\* The workflow has returned to the endpoint.
DecReturned == decResult.returned

\* The stage called the oracle in this run.
Called(stage) == \E i \in 1..Len(decCalls) : decCalls[i] = stage

\* C12: when the caller supplies an ATS analysis whose score is not null,
\* the ATS stage never calls the oracle, and in the result of a run that
\* completed analysis.ats_analysis is the supplied value unchanged and
\* analysis.ats_score is its score.
C12_AtsShortCircuit ==
    (decPc # "idle" /\ HasScore(ArgAts(request))) =>
        /\ ~Called("ats_analyzer")
        /\ decOracle["ats_analyzer"] = ""
        /\ decResult.success =>
              /\ decResult.analysis.ats_analysis = request.ats_analysis
              /\ decResult.analysis.ats_score = request.ats_analysis.score
              /\ decReply.body = decResult

C12_Witness ==
    /\ decResult.success
    /\ request.ats_analysis = AtsAnalysis("dict", FALSE, Num(0), "caller")
    /\ decResult.analysis.ats_score = Num(0)
    /\ decTrace[1] = "ats_analyzer"
    /\ decCalls = <<"profile_matcher", "college_tier_analyzer",
                    "experience_evaluator", "decision_maker">>

\* The caller supplied both pre-computed analyses.
BothSupplied ==
    /\ HasScore(ArgAts(request))
    /\ request.project_analysis.t = "dict"
    /\ request.project_analysis.rel # <<>>

\* C13 (as claimed): in a run with pre-supplied ATS and project analyses the
\* oracle is called only by the two evaluation stages (college tier,
\* experience) and the decision stage, and the result's analysis mapping
\* holds both supplied analyses unchanged.
C13_PreSuppliedScenario ==
    (decPc # "idle" /\ BothSupplied) =>
        /\ \A i \in 1..Len(decCalls) :
              decCalls[i] \in {"college_tier_analyzer", "experience_evaluator",
                               "decision_maker"}
        /\ decResult.success =>
              /\ decResult.analysis.ats_analysis = request.ats_analysis
              /\ "project_analysis" \in DOMAIN decResult.analysis

\* C14 (as claimed): in a completed run, each pre-computed input the caller
\* did not supply with a valid value was recomputed by an oracle-backed
\* stage: the ATS stage called the oracle; the project analysis of the state
\* is not the endpoint's default (the empty mapping) or None; the fit score
\* of the result is not the endpoint's default 0.
C14_AbsenceRecomputes ==
    decResult.success =>
        /\ ~HasScore(ArgAts(request)) =>
              (Called("ats_analyzer") /\ decState.ats_analysis.src # "caller")
        /\ request.project_analysis.t \in {"absent", "none"} =>
              decState.project_analysis \notin
                  { ProjectAnalysis("dict", <<>>), ProjectAnalysis("none", <<>>) }
        /\ request.agentic_score.t = "absent" =>
              decResult.analysis.agentic_score # Num(0)

\* The labels of a DecisionRecord.
Recommendations == {"Strong Accept", "Accept", "Consider", "Reject"}

\* C15 (as claimed): the recommendation of every returned DecisionRecord is
\* one of the four labels and its confidence score is a number in 0..100,
\* whatever the oracle answered.
C15_DecisionWellFormed ==
    DecReturned =>
        /\ decResult.recommendation \in Recommendations
        /\ decResult.confidence_score.t = "num"
        /\ decResult.confidence_score.v \in 0..100

\* C16 (as claimed): the stages are entered in the order of Stages; a run
\* that has returned entered all five, the decision stage once and last;
\* and what it returned carries a recommendation, a confidence score, a
\* reasoning and the key factors.
C16_DecisionOnce ==
    /\ Len(decTrace) <= Len(Stages)
    /\ \A i \in 1..Len(decTrace) : decTrace[i] = Stages[i]
    /\ DecReturned =>
          /\ decTrace = Stages
          /\ decResult.recommendation # "unset"
          /\ decResult.confidence_score.t # "absent"
          /\ decResult.reasoning # "unset"
          /\ decResult.key_factors # "unset"

\* ------------------------------------ the order of the interview-prep stages

\* The stage the worker thread is in (5: the graph has ended; 0: it has not
\* started or has raised).
StageIndex(t) ==
    CASE t = "company_research" -> 1
      [] t = "interview_rounds_analyzer" -> 2
      [] t \in {"round_by_round_prep", "round_by_round_prep_sd",
                "round_by_round_prep_behavioral"} -> 3
      [] t = "question_generator" -> 4
      [] t = "finished" -> 5
      [] OTHER -> 0

\* The keys a stage returns.
OutputKeys(n) ==
    CASE n = 1 -> {"company_info", "interview_links", "role_level"}
      [] n = 2 -> {"interview_rounds"}
      [] n = 3 -> {"dsa_prep", "system_design_prep", "behavioral_prep"}
      [] n = 4 -> {"common_questions", "prepared_answers"}

\* The stage's return value has been merged into the state (a JSON null
\* answer for system design, and a summary without content, are merged as
\* None).
StageDone(n) ==
    \A k \in OutputKeys(n) :
        \/ state[k] # NoneV
        \/ k = "company_info" /\ prepOracle["summary"] = "none"
              /\ state["role_level"] # NoneV
        \/ k = "system_design_prep" /\ prepOracle["sd"] = "null"
              /\ state["dsa_prep"] # NoneV

\* The stage has written nothing yet.
StageUntouched(n) == \A k \in OutputKeys(n) : state[k] = NoneV

\* C17: the stages run one after the other in the order company_research,
\* interview_rounds_analyzer, round_by_round_prep, question_generator: while
\* the thread is in stage n, every earlier stage has completed (its keys are
\* written) and no later stage has started (its keys are untouched); a stage
\* writes its keys when it completes, so the stage in progress has written
\* nothing; and at no time has a stage written before its predecessor.
C17_StrictSequencing ==
    /\ \A n \in 1..4 :
          /\ (StageIndex(thread) > n) => StageDone(n)
          /\ (StageIndex(thread) \in 1..n) => StageUntouched(n)
    /\ \A n \in 2..4 : ~StageUntouched(n) => StageDone(n - 1)
    /\ thread = "idle" => \A n \in 1..4 : StageUntouched(n)

C17_Witness ==
    /\ thread = "finished"
    /\ \A n \in 1..4 : StageDone(n)
    /\ prepOracle["summary"] = "text"
    /\ \A c \in PipelineCalls \ {"summary"} : prepOracle[c] = "dict"
    /\ payload.title = "Senior Software Engineer"

\* ------------------------------------------ the shape of the batch response

\* The labels of a ScoreResult.
ScoreLabels == {"Highly recommended", "Recommended", "Consider", "Not recommended"}

\* C18 (as claimed): every entry of a returned score list is a mapping with
\* a fitScore in 0..100, four sub-scores in 0..100 and a recommendation out
\* of the four labels, whether the oracle or the repair made it.
C18_ScoreRange ==
    (Returned /\ reply.status = 200) =>
        \A i \in 1..Len(reply.scores) :
            /\ reply.scores[i].t = "dict"
            /\ reply.scores[i].fitScore \in 0..100
            /\ \A k \in DOMAIN reply.scores[i].breakdown :
                  reply.scores[i].breakdown[k] \in 0..100
            /\ reply.scores[i].recommendation \in ScoreLabels

\* C19 (as claimed): every response of the batch entry point, the one for
\* the empty job list included, holds the result list and a total that is
\* the length of that list.
C19_ResponseShape ==
    (Returned /\ reply.status = 200) =>
        /\ reply.has_total
        /\ reply.total = Len(reply.scores)

\* ------------------------------------ errors of the recruiter decision

\* The caller passed None for an input whose details the decision stage reads.
NoneInput ==
    ArgAgenticDetails(request) = "null" \/ ArgProject(request).t = "none"

\* C20 (as claimed): get_recruiter_decision always returns a mapping to its
\* caller, never an exception.  No answer of the oracle makes the run report
\* an error: when the caller's inputs are mappings, the run reports success
\* and the endpoint answers 200, whatever the oracle did.  A run that fails
\* returns the structured error: success false, the error text,
\* recommendation "Consider", confidence 0 and a reasoning.
C20_StructuredError ==
    /\ (decPc = "returned" /\ decReply.status # 400
            /\ ~EndpointPrintRaises(request)) => DecReturned
    /\ DecReturned =>
          /\ decNode \in {"END", "raised"}
          /\ ~NoneInput =>
                (decResult.success /\ ~decResult.has_error /\ decReply.status = 200)
          /\ ~decResult.success =>
                /\ decResult.has_error
                /\ decResult.recommendation = "Consider"
                /\ decResult.confidence_score = Num(0)
                /\ decResult.reasoning = "workflow_failed"

\* ------------------------------------------------- the repair as a function

\* The result process_batch gives for group g and the answer its call got.
RepairOf(g) ==
    ProcessBatch(resume_data, batches[g], OracleAnswer(oracle[g], batches[g])).scores

\* The text the oracle call of group g returned, and the ids process_batch
\* expects for the group.
RawText(g) == OracleAnswer(oracle[g], batches[g])
ExpectedIds(g) == { JobId(batches[g][i]) : i \in 1..Len(batches[g]) }
EntriesOf(scores) == { scores[i] : i \in 1..Len(scores) }

TestInitialState == [k \in Keys \cup {"final_guide"} |-> NoneV]

\* The graph keeps the keys its state schema declares: InterviewPrepState
\* declares no final_guide.
SchemaInput(st) == [k \in Keys \cap DOMAIN st |-> st[k]]

\* bool(result.get("final_guide")), the script's success line.
TestSuccess(st) ==
    LET v == IF "final_guide" \in DOMAIN st THEN st["final_guide"] ELSE NoneV
    IN v.type \notin {"null", "absent"}

\* C22 (as claimed): once the graph, invoked on a state whose output keys are
\* all None, has run its four nodes, the resulting state holds a non-empty
\* final_guide.
C22_TestSuccess ==
    (thread = "finished" /\ SchemaInput(TestInitialState) = InitialState) =>
        TestSuccess(state)

\* The collection the repair step is said to take from a parsed answer: the
\* list itself; the list under the first of "scores", "results", "jobs" that
\* holds a list; the first list-typed value; else the empty collection.
ClaimedLocation(ans) ==
    IF ans.top = "list" THEN ans.items
    ELSE IF ans.top = "dict" THEN
        LET ks == <<"scores", "results", "jobs">>
            holds == { i \in 1..3 : /\ HasKey(ans, ks[i])
                                    /\ Lookup(ans, ks[i]).t = "list" }
        IN  IF holds # {}
            THEN Lookup(ans, ks[CHOOSE i \in holds : \A j \in holds : i <= j]).items
            ELSE FirstListValue(ans).items
    ELSE <<>>

\* C23 (as claimed): a group's result is built on the collection found at
\* the claimed location of the parsed answer (whose entries are well-formed
\* mappings); a list held under "results" or "jobs" is used even when
\* "scores" is present with a non-list value.
C23_ResultLocation ==
    \A g \in ReturnedTasks :
        LET ans == OracleAnswer(oracle[g], batches[g])
        IN  (/\ ans.kind = "json"
             /\ ~RepairRaises(ListVal(ClaimedLocation(ans)))) =>
                batch_results[g] = Repair(batches[g], ClaimedLocation(ans))

\* C24 (as claimed): when the collection the repair step located holds an
\* entry that is no mapping, only that entry is discarded: every well-formed
\* entry of the collection is in the group's result with the oracle's values,
\* and the unparsable entry is not.
C24_UnparsableDropped ==
    \A g \in ReturnedTasks :
        LET ans == OracleAnswer(oracle[g], batches[g])
            loc == LocateScores(ans)
            out == { batch_results[g][k] : k \in 1..Len(batch_results[g]) }
        IN  (/\ ans.kind = "json"
             /\ ~loc.raised
             /\ loc.scores.t = "list"
             /\ \E i \in 1..Len(loc.scores.items) :
                    loc.scores.items[i].t # "dict") =>
                \A i \in 1..Len(loc.scores.items) :
                    LET e == loc.scores.items[i]
                    IN  IF e.t = "dict" THEN e \in out ELSE e \notin out

\* C25: when the oracle's text for a group does not parse, the group still
\* completes without raising, its result holds exactly one placeholder per
\* job of the group, in the group's order, and the batch run does not fail
\* for it: it answers successfully unless a group could not build its prompt.
C25_MalformedRecovered ==
    /\ \A g \in DoneTasks :
          oracle[g] = "unparsable" =>
              /\ ~taskRaised[g]
              /\ Len(batch_results[g]) = Len(batches[g])
              /\ \A i \in 1..Len(batches[g]) :
                    IsPlaceholderFor(batch_results[g][i], batches[g][i])
    /\ (Returned /\ \E g \in Tasks : oracle[g] = "unparsable") =>
          /\ (\A g \in Tasks : oracle[g] # "") => reply.status = 200 /\ reply.success
          /\ \A g \in Tasks : taskPc[g] = "done"

C25_Witness ==
    /\ Returned /\ Len(batches) >= 2
    /\ oracle[1] = "unparsable" /\ oracle[2] = "scores_all"
    /\ reply.status = 200
    /\ IsPlaceholderFor(reply.scores[1], jobs[1])
    /\ reply.scores[Len(batches[1]) + 1] = GoodEntry(jobs[Len(batches[1]) + 1])

\* The worker thread is inside the graph: some stage has yet to run or end.
GraphRunning == thread \notin {"idle", "finished", "raised", "raised_timeout"}

\* C26 (as claimed): once the deadline has expired and the fallback has been
\* invoked, the original run takes no further step (no stage starts, no
\* pipeline oracle call is issued), and the fallback never executes while
\* the original run is still executing.
C26_Abandonment ==
    /\ [](~(prepPc = "fallback" /\ GraphRunning))
    /\ [][ (timedOut /\ fallbackCalls >= 1) =>
              /\ thread' = thread
              /\ \A c \in PipelineCalls : prepOracle'[c] = prepOracle[c]
         ]_vars

\* The first half alone: the run goes on after the fallback has answered.
C26_StageAfterDeadline ==
    [][ (timedOut /\ prepPc = "returned") => thread' = thread ]_vars

\* C27 (as claimed): when the deadline expired after some stages had
\* completed, the state returned to the caller keeps, for every output key a
\* stage had written by then, the value that stage wrote.
C27_FallbackFillsUnset ==
    (prepPc = "returned" /\ timedOut /\ prepReply.status = 200) =>
        \A k \in Keys :
            deadlineState[k].type # "null" => prepReply.body[k] = deadlineState[k]

\* C28 (as claimed): the run issues one oracle call per group and no other: the calls
\* issued so far are those of the groups that reached their call, a group
\* whose call failed is not called again, a finished run over n jobs has
\* issued ceil(n / batch_size) calls (none for an empty list), and every
\* group it called for is non-empty.
C28_OneCallPerGroup ==
    /\ calls = Cardinality({ g \in Tasks : taskPc[g] \in {"calling", "done"} })
    /\ \A g \in Tasks : Len(batches[g]) >= 1
    /\ Returned => calls = TotalBatches(Len(jobs))
    /\ jobs = <<>> => calls = 0

\* The part of C28 that holds: no group is called for twice, and a group
\* that issued its call has issued exactly one.
C28_AtMostOneCall ==
    /\ calls = Cardinality({ g \in Tasks : taskPc[g] = "calling" \/ oracle[g] # "" })
    /\ calls <= TotalBatches(Len(jobs))

\* The group an input job id belongs to (0: no group of this run).
GroupOf(id) ==
    IF \E g \in Tasks : \E i \in 1..Len(batches[g]) : JobId(batches[g][i]) = id
    THEN CHOOSE g \in Tasks : \E i \in 1..Len(batches[g]) : JobId(batches[g][i]) = id
    ELSE 0

\* C29 (as claimed): the final result is determined by the oracle's answers
\* per group alone, whatever the order in which the groups started and
\* completed: it is the groups' repaired results, and every entry it holds
\* for an id of some group comes from that group's own result, never from
\* another group's.
C29_OrderIndependence ==
    (Returned /\ jobs # <<>>) =>
        /\ reply.scores = Concat([g \in 1..Len(batches) |-> RepairOf(g)])
        /\ \A g \in Tasks :
              \A k \in 1..Len(batch_results[g]) :
                  LET e == batch_results[g][k]
                  IN  (e.t = "dict" /\ GroupOf(EntryJobId(e)) # 0) =>
                          GroupOf(EntryJobId(e)) = g

\* The first half of C29 alone: the output is the groups' repaired results
\* in group order.
C29_Deterministic ==
    (Returned /\ jobs # <<>> /\ reply.status = 200) =>
        reply.scores = Concat([g \in 1..Len(batches) |-> RepairOf(g)])

\* The largest number of groups a run has.
MaxGroups == TotalBatches(MaxJobs)

\* C30: provided every issued oracle call returns or fails, every group of a
\* run acquires a permit, issues its call and completes, and the run
\* returns; the result is assembled only when every group has completed; and
\* every permit is given back, also by a group whose call failed, so that
\* the three permits are free when the run has ended.
C30_BatchProgress ==
    /\ [](Returned => /\ \A g \in Tasks : taskPc[g] = "done"
                      /\ semaphore = SemaphorePermits)
    /\ (\E g \in Tasks : taskPc[g] # "done") ~>
          (\A g \in Tasks : taskPc[g] = "done")
    /\ <>Returned

C30_Witness ==
    /\ Returned /\ Len(batches) = MaxGroups
    /\ \A g \in Tasks : taskPc[g] = "done"
    /\ oracle[1] = "timeout" /\ oracle[2] = "timeout" /\ oracle[3] = "timeout"
    /\ oracle[MaxGroups] = "scores_all"
    /\ semaphore = SemaphorePermits

\* C31 (as claimed): the oracle call is a suspension point of its group:
\* while a group's call is outstanding, a group that has not started can
\* start as long as a permit is free, so that two groups (three, with three
\* groups) come to have an outstanding oracle call at the same time.
C31_GroupsOverlap ==
    (/\ epPc = "gather"
     /\ InFlight # {}
     /\ semaphore > 0
     /\ \E h \in Tasks : taskPc[h] = "pending") =>
        ENABLED (\E h \in Tasks : TaskAcquire(h))

\* What holds instead: no two groups ever have an outstanding oracle call at
\* the same time.
C31_NeverOverlap == Cardinality(InFlight) <= 1

\* C32 (as claimed): once a stage has completed, each of its output keys
\* holds a non-null value; and while stage 2, 3 or 4 runs role_level is
\* written, while stage 3 runs interview_rounds is written.
C32_Population ==
    /\ \A n \in 1..4 :
          StageIndex(thread) > n =>
              \A k \in OutputKeys(n) : state[k].type \notin {"null", "absent"}
    /\ StageIndex(thread) \in 2..4 =>
          state["role_level"].type \notin {"null", "absent"}
    /\ StageIndex(thread) = 3 =>
          state["interview_rounds"].type \notin {"null", "absent"}

\* The second half alone: the keys a stage reads are written when it starts.
C32_InputsPopulated ==
    /\ StageIndex(thread) \in 2..4 =>
          state["role_level"].type \notin {"null", "absent"}
    /\ StageIndex(thread) = 3 =>
          state["interview_rounds"].type \notin {"null", "absent"}

\* C33 (as claimed): in every returned score list the recommendation of an
\* entry is the label of the band its fitScore lies in.
C33_RecommendationBand ==
    (Returned /\ reply.status = 200) =>
        \A i \in 1..Len(reply.scores) :
            reply.scores[i].t = "dict" =>
                reply.scores[i].recommendation = Band(reply.scores[i].fitScore)

\* Every oracle call the run issued raised.
AllCallsFailed == \A s \in StageSet : decOracle[s] \in {"", "raise"}

\* The data-level defaults of a run whose oracle calls all failed.
DegradedResult ==
    /\ decTrace = Stages
    /\ decResult.success
    /\ decResult.analysis.ats_score = Num(0)
    /\ decResult.analysis.profile_match_score = Num(0)
    /\ decResult.analysis.college_tier = "Unknown"
    /\ decResult.analysis.experience_level = "None"
    /\ decResult.recommendation = "Consider"
    /\ decResult.confidence_score = Num(50)
    /\ decResult.key_factors = "empty"

\* C34 (as claimed): a run without any pre-supplied analysis (none given, or
\* None given) in which every oracle call failed has entered the five stages
\* once each in order and returns success with the data-level defaults.
C34_TotalOracleFailure ==
    (/\ DecReturned
     /\ request.ats_analysis.t \in {"absent", "none"}
     /\ request.project_analysis.t \in {"absent", "none"}
     /\ request.agentic_details \notin {"null", "dict_badlist"}
     /\ AllCallsFailed) => DegradedResult

\* The same for requests that leave the analyses out: it holds.
C34_DefaultsWhenAbsent ==
    (/\ DecReturned
     /\ request.ats_analysis.t \in {"absent", "none"}
     /\ request.project_analysis.t = "absent"
     /\ request.agentic_details \notin {"null", "dict_badlist"}
     /\ AllCallsFailed) => DegradedResult

\* The oracle calls stage 3 has issued.
Stage3Calls == Cardinality({ c \in {"dsa", "sd", "behavioral"} : prepOracle[c] # "" })

\* C35: the round-by-round stage calls the oracle for system-design content
\* only when role_level is SDE-2 or Senior; once the stage has completed, it
\* has made that call exactly for these role levels, 3 oracle calls in all,
\* and for any other role level 2 calls, with system_design_prep the static
\* guidance.
C35_SystemDesignBranch ==
    /\ prepOracle["sd"] # "" => state["role_level"].src \in {"SDE-2", "Senior"}
    /\ StageIndex(thread) > 3 =>
          IF state["role_level"].src \in {"SDE-2", "Senior"}
          THEN /\ prepOracle["sd"] # ""
               /\ Stage3Calls = 3
               /\ state["system_design_prep"].src # "static"
          ELSE /\ prepOracle["sd"] = ""
               /\ Stage3Calls = 2
               /\ state["system_design_prep"] = V("dict", "static")

C35_Witness ==
    /\ thread = "finished"
    /\ payload.title = "Junior Developer"
    /\ state["role_level"].src = "SDE-1"
    /\ state["system_design_prep"] = V("dict", "static")
    /\ prepOracle["dsa"] = "dict" /\ prepOracle["behavioral"] = "dict"
    /\ prepOracle["sd"] = ""

\* C36: the output of a run that answers with scores is the groups' results
\* joined in the order of the groups in the input list: the results of group
\* g start right after those of the groups before it, and group g is the
\* g-th slice of the input.
C36_GroupOrder ==
    (Returned /\ jobs # <<>> /\ reply.status = 200) =>
        /\ Len(reply.scores) = Len(Concat(batch_results))
        /\ \A g \in Tasks :
              /\ batches[g] = Batch(jobs, g)
              /\ OutputSlice(g) = batch_results[g]
              /\ batch_results[g] = RepairOf(g)

C36_Witness ==
    /\ Returned /\ Len(batches) = 3
    /\ oracle[1] = "scores_all" /\ oracle[2] = "timeout" /\ oracle[3] = "missing_last"
    /\ reply.scores[1] = GoodEntry(jobs[1])
    /\ IsPlaceholderFor(reply.scores[batch_size + 1], jobs[batch_size + 1])
    /\ IsPlaceholderFor(reply.scores[Len(jobs)], jobs[Len(jobs)])

\* C37: for a resume without education entries the college-tier stage
\* issues no web search and no oracle call and writes college_tier
\* "Unknown" with the neutral no-education details; for a resume with
\* education it issues at most 3 searches and exactly one oracle call, and
\* the stage completes whatever the searches did.
C37_CollegeTier ==
    /\ ~request.education =>
          /\ decSearches = <<>>
          /\ ~Called("college_tier_analyzer")
          /\ decOracle["college_tier_analyzer"] = ""
    /\ Len(decTrace) >= 3 =>
          /\ Len(decTrace) = 3 => decNode = "experience_evaluator"
          /\ IF ~request.education
             THEN /\ decState.college_tier = "Unknown"
                  /\ decState.college_details = "no_education"
             ELSE /\ Len(decSearches) <= 3
                  /\ Cardinality({ i \in 1..Len(decCalls) :
                                     decCalls[i] = "college_tier_analyzer" }) = 1
                  /\ decState.college_tier \in {"Unknown", "TIER 1"}

C37_Witness ==
    /\ DecReturned /\ decResult.success
    /\ request.education
    /\ decSearches = <<"fail", "fail", "fail">>
    /\ Called("college_tier_analyzer")
    /\ decResult.analysis.college_tier = "TIER 1"

\* ------------------------------------------------------------------------
\* PDF question answering and its conversation store
\* (rag_service.py: query_pdf, _save_rag_conversation,
\*  _get_rag_conversation_history)

\* The query_pdf requests of a run.
MaxQueries == 2

Queries == 1..MaxQueries

\* payload.get("thread_id", "default"): the thread ids the requests carry.
ThreadIds == {"default", "t1"}

\* A stored message: its role and the request whose question or answer it
\* holds (0: an exchange stored before the run).
Message(role, q) == [role |-> role, q |-> q]

\* user_message, assistant_message of one save, in the order they are appended.
Exchange(q) == <<Message("user", q), Message("assistant", q)>>

\* What the collection can hold for a thread when the run starts: no document,
\* or the document an earlier save inserted.
StoredBefore == { <<>>, <<Exchange(0)>> }

\* find_one found no document
NoDocument == [found |-> FALSE, messages |-> <<>>]

\* _rag_checkpoints.find_one({"thread_id": thread_id}): the first document
\* of the thread, None when there is none;
\* messages = existing.get("messages", [])
find_one(coll, t) ==
    IF Len(coll[t]) = 0 THEN NoDocument
    ELSE [found |-> TRUE, messages |-> coll[t][1]]

\* _get_rag_conversation_history: the found document's messages, else [];
\* [] as well when the store is not there (_rag_checkpoints is None) or
\* find_one raises (ok FALSE).
GetRagConversationHistory(coll, t, ok) ==
    IF ok THEN find_one(coll, t).messages ELSE <<>>

\* update_one({"thread_id": thread_id}, {"$set": {"messages": messages}}):
\* replaces the messages of the first document of the thread, if any.
update_one(coll, t, messages) ==
    IF Len(coll[t]) = 0 THEN coll
    ELSE [coll EXCEPT ![t] = [@ EXCEPT ![1] = messages]]

\* insert_one({"thread_id": thread_id, ..., "messages": [user, assistant]})
insert_one(coll, t, messages) == [coll EXCEPT ![t] = Append(@, messages)]

\* if existing: append both messages to the list that was read and $set it;
\* else: insert a new document holding the two messages.
SaveWriteResult(coll, t, ex, q) ==
    IF ex.found THEN update_one(coll, t, ex.messages \o Exchange(q))
    ELSE insert_one(coll, t, Exchange(q))

\* The server processes of the service.  main.py gives two ways to start
\* one: python main.py (uvicorn.run on AI_SERVICE_PORT, 8005 by default) and
\* uvicorn main:app --reload --port 8000.  Each is a process with its own
\* event loop and its own MongoClient on MONGO_URI; the collection
\* jobportal.rag_checkpoints is the one they share.
Servers == {"python_main", "uvicorn_cli"}

\* query_pdf is a coroutine without a single await: the store and the oracle
\* are called through their blocking clients, so a request that started holds
\* the event loop of its server process until it returns.
HandlerSuspends == FALSE

LoopAfterStep(q) == IF HandlerSuspends THEN 0 ELSE q

InitHistory ==
    /\ rag_checkpoints \in [ThreadIds -> StoredBefore]
    /\ queryPc = [q \in Queries |-> "start"]
    /\ queryThread \in [Queries -> ThreadIds]
    /\ queryServer \in [Queries -> Servers]
    /\ conversation_history = [q \in Queries |-> <<>>]
    /\ existing = [q \in Queries |-> NoDocument]
    /\ loopOwner = [s \in Servers |-> 0]
    /\ resume_data = ResumeData("strs", "str", "strs", "strs") /\ jobs = <<>> /\ epPc = "idle" /\ batches = <<>> /\ taskPc = <<>>
    /\ semaphore = SemaphorePermits /\ running = 0 /\ oracle = <<>>
    /\ batch_results = <<>> /\ taskRaised = <<>> /\ calls = 0 /\ reply = NoReply
    /\ PrepIdle
    /\ DecisionIdle

\* The event loop of the request's server starts its coroutine, which runs
\* up to conversation_history = _get_rag_conversation_history(thread_id).
\* inp is what the request meets on the way: "missing" (no pdf_id or no
\* question: HTTP 400), "raises" (the vector search or the sorting of its
\* results raises: HTTP 500 through except Exception), "no_results" (the
\* search finds nothing: the handler returns its apology, nothing is loaded
\* or saved), "results" (the history is loaded; ok as for
\* GetRagConversationHistory).
QueryStart(q, inp, ok) ==
    /\ queryPc[q] = "start"
    /\ loopOwner[queryServer[q]] = 0
    /\ conversation_history' =
          [conversation_history EXCEPT
              ![q] = IF inp = "results"
                     THEN GetRagConversationHistory(rag_checkpoints, queryThread[q], ok)
                     ELSE @]
    /\ queryPc' = [queryPc EXCEPT
                      ![q] = CASE inp = "missing" -> "rejected"
                               [] inp = "raises" -> "failed"
                               [] inp = "no_results" -> "no_content"
                               [] OTHER -> "history"]
    /\ loopOwner' = [loopOwner EXCEPT
                        ![queryServer[q]] = IF inp = "results" THEN LoopAfterStep(q)
                                            ELSE 0]
    /\ UNCHANGED <<rag_checkpoints, queryThread, queryServer, existing>>
    /\ UNCHANGED <<batchVars, prepVars, decVars>>

\* completion = client.chat.completions.create(...): an answer, or an
\* exception that the handler turns into HTTP 500 without saving.
QueryAnswer(q, ok) ==
    /\ queryPc[q] = "history"
    /\ loopOwner[queryServer[q]] \in {0, q}
    /\ queryPc' = [queryPc EXCEPT ![q] = IF ok THEN "answered" ELSE "failed"]
    /\ loopOwner' = [loopOwner EXCEPT
                        ![queryServer[q]] = IF ok THEN LoopAfterStep(q) ELSE 0]
    /\ UNCHANGED <<rag_checkpoints, queryThread, queryServer, conversation_history,
                   existing>>
    /\ UNCHANGED <<batchVars, prepVars, decVars>>

\* _save_rag_conversation: existing = _rag_checkpoints.find_one(...); when
\* the store is not there or find_one raises (ok FALSE) nothing is saved and
\* query_pdf returns the answer.
SaveFind(q, ok) ==
    /\ queryPc[q] = "answered"
    /\ loopOwner[queryServer[q]] \in {0, q}
    /\ existing' = [existing EXCEPT ![q] =
                      IF ok THEN find_one(rag_checkpoints, queryThread[q]) ELSE @]
    /\ queryPc' = [queryPc EXCEPT ![q] = IF ok THEN "found" ELSE "unsaved"]
    /\ loopOwner' = [loopOwner EXCEPT
                        ![queryServer[q]] = IF ok THEN LoopAfterStep(q) ELSE 0]
    /\ UNCHANGED <<rag_checkpoints, queryThread, queryServer, conversation_history>>
    /\ UNCHANGED <<batchVars, prepVars, decVars>>

\* _save_rag_conversation: update_one / insert_one, then query_pdf returns the
\* answer; an exception of the store is printed and the answer still returned.
SaveWrite(q, ok) ==
    /\ queryPc[q] = "found"
    /\ loopOwner[queryServer[q]] \in {0, q}
    /\ rag_checkpoints' =
          IF ok THEN SaveWriteResult(rag_checkpoints, queryThread[q], existing[q], q)
          ELSE rag_checkpoints
    /\ queryPc' = [queryPc EXCEPT ![q] = IF ok THEN "saved" ELSE "unsaved"]
    /\ loopOwner' = [loopOwner EXCEPT ![queryServer[q]] = 0]
    /\ UNCHANGED <<queryThread, queryServer, conversation_history, existing>>
    /\ UNCHANGED <<batchVars, prepVars, decVars>>

NextHistory ==
    \/ \E q \in Queries, inp \in {"missing", "raises", "no_results", "results"},
          ok \in BOOLEAN : QueryStart(q, inp, ok)
    \/ \E q \in Queries, ok \in BOOLEAN : QueryAnswer(q, ok)
    \/ \E q \in Queries, ok \in BOOLEAN : SaveFind(q, ok)
    \/ \E q \in Queries, ok \in BOOLEAN : SaveWrite(q, ok)

SpecHistory == InitHistory /\ [][NextHistory]_vars

\* The messages stored for a thread (those of its first document).
Stored(coll, t) == find_one(coll, t).messages

\* The requests whose save wrote to the store for thread t.
SavedOn(t) == { q \in Queries : queryThread[q] = t /\ queryPc[q] = "saved" }

ClaimedProjectScore(pa) ==
    LET n == Len(pa.rel)
        v(i) == IF i > n \/ pa.rel[i] < 0 THEN 0 ELSE pa.rel[i]
    IN  IF pa.t # "dict" \/ n = 0 THEN [num |-> 0, den |-> 1]
        ELSE [num |-> v(1) + v(2) + v(3), den |-> IF n < 3 THEN n ELSE 3]

\* Two ratios denote the same number.
SameNumber(a, b) == a.num * b.den = b.num * a.den

\* C39: from the moment the graph is invoked, the state's project_score is
\* the mean of the relevanceScore of the first min(3, n) relevant projects of
\* the request's project analysis (a missing relevanceScore counts 0; 0 for
\* an absent or empty analysis): every stage, the decision stage included,
\* finds that value, and a successful result echoes it in analysis.
C39_ProjectScore ==
    /\ (decNode \in StageSet \/ decTrace # <<>>) =>
          SameNumber(decState.project_score,
                     ClaimedProjectScore(request.project_analysis))
    /\ decResult.returned /\ decResult.success =>
          /\ decResult.has_analysis
          /\ SameNumber(decResult.analysis.project_score,
                        ClaimedProjectScore(request.project_analysis))

\* A successful run over four relevant projects scored 80, 60, 40, 20: the
\* decision stage ran and the result carries (80 + 60 + 40) / 3.
C39_Witness ==
    /\ decResult.returned /\ decResult.success
    /\ request.project_analysis = ProjectAnalysis("dict", <<80, 60, 40, 20>>)
    /\ \E i \in 1..Len(decTrace) : decTrace[i] = "decision_maker"
    /\ decState.project_score = Ratio(180, 3)
    /\ decResult.analysis.project_score = Ratio(180, 3)

====
